---- MODULE Spec2Model ----
(***************************************************************************)
(* Keyframe graph of ORB-SLAM3 (KeyFrame.cc): covisibility weights, the    *)
(* ordered covisible list, the spanning tree, loop/merge edges and the     *)
(* erase guards, with culling (SetBadFlag / SetErase).                     *)
(*                                                                         *)
(* Every public operation is one action.  An operation is computed as a    *)
(* pure function on a heap record H whose fields carry the names of the    *)
(* KeyFrame members; the action commits the resulting heap.                *)
(***************************************************************************)
EXTENDS Integers, Sequences, FiniteSets, TLC

\* ------------------------------------------------------- program constants
th == 15                      \* promotion threshold of UpdateConnections

\* ------------------------------------------------------------------ bounds
NKF == 3                      \* keyframes 0 .. NKF-1
NBulk == th                   \* landmarks 1..NBulk always share their observers
NMP == NBulk + 1              \* landmarks 1 .. NMP
MaxOps == 3                   \* operations issued in one behaviour

InitKFid == 0                 \* Map::GetInitKFid(): id of the initial keyframe
NULL == -1                    \* null pointer (KeyFrame* or MapPoint*)

KF == 0 .. (NKF - 1)
MP == 1 .. NMP
BulkMP == 1 .. NBulk
EmptyMap == [n \in {} |-> 0]

CamBase == 100                \* cameras are the objects CamBase, CamBase + 1, ...
Cam == {CamBase}              \* the camera model objects (GeometricCamera*)
GetId(c) == c - CamBase       \* GeometricCamera::GetId
CamById(id) == CHOOSE c \in Cam : GetId(c) = id

NThreads == 2                 \* threads calling into the keyframes
Threads == 1 .. NThreads

NFresh == NKF                 \* keyframe objects the threads construct from frames
Fresh == NKF .. (NKF + NFresh - 1)

\* a thread outside every call; rot, trans, frame and seen are the pose
\* components the last call read; done is the set of keyframe objects whose
\* construction had finished when the call started
Idle == [ op |-> "idle", kf |-> NULL, prog |-> << >>,
          seen |-> 0, rot |-> 0, trans |-> << 0, 0, 0 >>, frame |-> "cw",
          done |-> {} ]

\* the backup members of a keyframe nothing was saved into
NoBackup ==
    [ mvBackupMapPointsId               |-> << >>,
      mBackupConnectedKeyFrameIdWeights |-> EmptyMap,
      mBackupParentId                   |-> -1,
      mvBackupChildrensId               |-> << >>,
      mvBackupLoopEdgesId               |-> << >>,
      mvBackupMergeEdgesId              |-> << >>,
      mnBackupIdCamera                  |-> -1 ]

\* no PreSave has run on the keyframe
NoSnap == [ stage |-> "live" ]

VARIABLES
    mConnectedKeyFrameWeights,      \* [KF -> map KeyFrame* -> int]
    mvpOrderedConnectedKeyFrames,   \* [KF -> Seq(KF)]
    mvOrderedWeights,               \* [KF -> Seq(Int)]
    mpParent,                       \* [KF -> KF \cup {NULL}]
    mspChildrens,                   \* [KF -> SUBSET KF]
    mbFirstConnection,              \* [KF -> BOOLEAN]
    mbNotErase,                     \* [KF -> BOOLEAN]
    mbToBeErased,                   \* [KF -> BOOLEAN]
    mbBad,                          \* [KF -> BOOLEAN]
    mspLoopEdges,                   \* [KF -> SUBSET KF]
    mspMergeEdges,                  \* [KF -> SUBSET KF]
    mvpMapPoints,                   \* [KF -> Seq(MP \cup {NULL})], landmark slots
    mObservations,                  \* [MP -> SUBSET KF], MapPoint observation lists
    mbBadMP,                        \* [MP -> BOOLEAN], MapPoint bad flags
    mspKeyFrames,                   \* keyframes registered in the owning Map
    mpKeyFrameDB,                   \* keyframes registered in the KeyFrameDatabase
    mpCamera,                       \* [KF -> Cam \cup {NULL}]
    mTcw,                           \* [KF -> pose], world to camera
    mRcw,                           \* [KF -> rotation of mTcw]
    mTwc,                           \* [KF -> pose], camera to world
    mRwc,                           \* [KF -> rotation of mTwc]
    mOwb,                           \* [KF -> position of the IMU body, Uninit until assigned]
    mImuCalib,                      \* [KF -> IMU::Calib: mbIsSet and mTcb]
    mvParameters,                   \* [Cam -> parameters of the camera model]
    _estimate,                      \* the ImuCamPose of the pose vertex, NoVertex before it is built
    nNextId,                        \* KeyFrame::nNextId, the static id counter
    mnIds,                          \* [object -> its mnId, NULL until the constructor assigns it]
    System,                         \* the mode requests of System with its tracker and local mapper
    backup,                         \* [KF -> the mBackup... / mvBackup... members]
    snap,                           \* [KF -> save stage and the members seen by PreSave]
    mMutexConnections,              \* [KF -> the thread holding the mutex, 0 when free]
    mMutexFeatures,                 \* [KF -> the thread holding the mutex, 0 when free]
    mMutexPose,                     \* [KF -> the thread holding the mutex, 0 when free]
    thread,                         \* [Threads -> the call a thread is in and what is left of it]
    addr,                           \* [KF -> Nat], order of the KeyFrame* pointers
    ucAssigned,                     \* [KF -> Nat], parents assigned by UpdateConnections
    ret,                            \* last call: operation, receiver, argument, outcome
    nOps                            \* number of operations issued so far

vars == << mConnectedKeyFrameWeights, mvpOrderedConnectedKeyFrames, mvOrderedWeights,
           mpParent, mspChildrens, mbFirstConnection, mbNotErase, mbToBeErased, mbBad,
           mspLoopEdges, mspMergeEdges, mvpMapPoints, mObservations, mbBadMP, mspKeyFrames,
           mpKeyFrameDB, mpCamera, mTcw, mRcw, mTwc, mRwc, mOwb, mImuCalib,
           mvParameters, _estimate, nNextId, mnIds, System, backup, snap,
           mMutexConnections, mMutexFeatures, mMutexPose, thread, addr,
           ucAssigned, ret, nOps >>


\* The heap: the members of all keyframes, landmarks and the map as one record.
Heap ==
    [ mConnectedKeyFrameWeights    |-> mConnectedKeyFrameWeights,
      mvpOrderedConnectedKeyFrames |-> mvpOrderedConnectedKeyFrames,
      mvOrderedWeights             |-> mvOrderedWeights,
      mpParent                     |-> mpParent,
      mspChildrens                 |-> mspChildrens,
      mbFirstConnection            |-> mbFirstConnection,
      mbNotErase                   |-> mbNotErase,
      mbToBeErased                 |-> mbToBeErased,
      mbBad                        |-> mbBad,
      mspLoopEdges                 |-> mspLoopEdges,
      mspMergeEdges                |-> mspMergeEdges,
      mvpMapPoints                 |-> mvpMapPoints,
      mObservations                |-> mObservations,
      mbBadMP                      |-> mbBadMP,
      mspKeyFrames                 |-> mspKeyFrames,
      mpKeyFrameDB                 |-> mpKeyFrameDB,
      mpCamera                     |-> mpCamera,
      mTcw                         |-> mTcw,
      mRcw                         |-> mRcw,
      mTwc                         |-> mTwc,
      mRwc                         |-> mRwc,
      mOwb                         |-> mOwb,
      mImuCalib                    |-> mImuCalib,
      mvParameters                 |-> mvParameters,
      _estimate                    |-> _estimate,
      nNextId                      |-> nNextId,
      mnIds                        |-> mnIds,
      System                       |-> System,
      backup                       |-> backup,
      status                       |-> "ok" ]

Commit(H) ==
    /\ mConnectedKeyFrameWeights'    = H.mConnectedKeyFrameWeights
    /\ mvpOrderedConnectedKeyFrames' = H.mvpOrderedConnectedKeyFrames
    /\ mvOrderedWeights'             = H.mvOrderedWeights
    /\ mpParent'                     = H.mpParent
    /\ mspChildrens'                 = H.mspChildrens
    /\ mbFirstConnection'            = H.mbFirstConnection
    /\ mbNotErase'                   = H.mbNotErase
    /\ mbToBeErased'                 = H.mbToBeErased
    /\ mbBad'                        = H.mbBad
    /\ mspLoopEdges'                 = H.mspLoopEdges
    /\ mspMergeEdges'                = H.mspMergeEdges
    /\ mvpMapPoints'                 = H.mvpMapPoints
    /\ mObservations'                = H.mObservations
    /\ mbBadMP'                      = H.mbBadMP
    /\ mspKeyFrames'                 = H.mspKeyFrames
    /\ mpKeyFrameDB'                 = H.mpKeyFrameDB
    /\ mpCamera'                     = H.mpCamera
    /\ mTcw'                         = H.mTcw
    /\ mRcw'                         = H.mRcw
    /\ mTwc'                         = H.mTwc
    /\ mRwc'                         = H.mRwc
    /\ mOwb'                         = H.mOwb
    /\ mImuCalib'                    = H.mImuCalib
    /\ mvParameters'                 = H.mvParameters
    /\ _estimate'                    = H._estimate
    /\ nNextId'                      = H.nNextId
    /\ mnIds'                        = H.mnIds
    /\ System'                       = H.System
    /\ backup'                       = H.backup

\* ----------------------------------------------------------------- helpers
\* std::map / std::set of KeyFrame* iterate in pointer order; std::sort of
\* (weight, KeyFrame*) pairs breaks weight ties by pointer.
PairLess(p, q) == \/ p[1] < q[1]
                  \/ p[1] = q[1] /\ addr[p[2]] < addr[q[2]]

\* std::sort ascending followed by push_front of every element: the pairs in
\* descending order.
RECURSIVE SortDesc(_)
SortDesc(S) ==
    IF S = {} THEN << >>
    ELSE LET top == CHOOSE p \in S : \A q \in S \ {p} : PairLess(q, p)
         IN  << top >> \o SortDesc(S \ {top})

\* the elements of a set of keyframes in pointer (iteration) order
RECURSIVE InAddrOrder(_)
InAddrOrder(S) ==
    IF S = {} THEN << >>
    ELSE LET lo == CHOOSE k \in S : \A j \in S \ {k} : addr[k] < addr[j]
         IN  << lo >> \o InAddrOrder(S \ {lo})

Range(f) == { f[i] : i \in DOMAIN f }
MapErase(f, x) == [n \in (DOMAIN f) \ {x} |-> f[n]]
MapPut(f, x, v) == [n \in (DOMAIN f) \cup {x} |-> IF n = x THEN v ELSE f[n]]

isBad(H, k) == H.mbBad[k]

GetWeight(H, k, other) ==
    IF other \in DOMAIN H.mConnectedKeyFrameWeights[k]
    THEN H.mConnectedKeyFrameWeights[k][other]
    ELSE 0

GetMap(k) == 0                \* every keyframe of the model belongs to one map

\* UpdateBestCovisibles without the isBad() filter
UpdateBestCovisibles_KeepBad(H, k) ==
    LET m     == H.mConnectedKeyFrameWeights[k]
        pairs == { << m[n], n >> : n \in DOMAIN m }
        srt   == SortDesc(pairs)
    IN  [ H EXCEPT !.mvpOrderedConnectedKeyFrames[k] = [i \in 1 .. Len(srt) |-> srt[i][2]],
                   !.mvOrderedWeights[k]             = [i \in 1 .. Len(srt) |-> srt[i][1]] ]

\* KeyFrame::UpdateBestCovisibles
UpdateBestCovisibles(H, k) ==
    LET m     == H.mConnectedKeyFrameWeights[k]
        pairs == { << m[n], n >> : n \in { x \in DOMAIN m : ~isBad(H, x) } }
        srt   == SortDesc(pairs)
    IN  [ H EXCEPT !.mvpOrderedConnectedKeyFrames[k] = [i \in 1 .. Len(srt) |-> srt[i][2]],
                   !.mvOrderedWeights[k]             = [i \in 1 .. Len(srt) |-> srt[i][1]] ]

\* KeyFrame::AddConnection
AddConnection(H, k, pKF, weight) ==
    LET m == H.mConnectedKeyFrameWeights[k]
    IN  IF pKF \in DOMAIN m /\ m[pKF] = weight
        THEN H
        ELSE UpdateBestCovisibles(
                 [ H EXCEPT !.mConnectedKeyFrameWeights[k] = MapPut(m, pKF, weight) ], k)

\* KeyFrame::EraseConnection
EraseConnection(H, k, pKF) ==
    LET m == H.mConnectedKeyFrameWeights[k]
    IN  IF pKF \in DOMAIN m
        THEN UpdateBestCovisibles(
                 [ H EXCEPT !.mConnectedKeyFrameWeights[k] = MapErase(m, pKF) ], k)
        ELSE H

\* KeyFrame::AddChild, KeyFrame::EraseChild
AddChild(H, k, pKF) == [ H EXCEPT !.mspChildrens[k] = @ \cup {pKF} ]
EraseChild(H, k, pKF) == [ H EXCEPT !.mspChildrens[k] = @ \ {pKF} ]

\* ChangeParent without the test for self-parenting
ChangeParent_NoSelfCheck(H, k, pKF) ==
    IF pKF = NULL
    THEN [ H EXCEPT !.mpParent[k] = NULL, !.status = "ub" ]
    ELSE AddChild([ H EXCEPT !.mpParent[k] = pKF ], pKF, k)

\* KeyFrame::ChangeParent.  A null pKF is dereferenced by pKF->AddChild(this)
\* after mpParent has been overwritten: status "ub".
ChangeParent(H, k, pKF) ==
    IF pKF = k
    THEN [ H EXCEPT !.status = "throw" ]
    ELSE IF pKF = NULL
    THEN [ H EXCEPT !.mpParent[k] = NULL, !.status = "ub" ]
    ELSE AddChild([ H EXCEPT !.mpParent[k] = pKF ], pKF, k)

\* MapPoint::GetObservations / MapPoint::isBad / MapPoint::EraseObservation
GetObservations(H, mp) == H.mObservations[mp]
isBadMP(H, mp) == H.mbBadMP[mp]
EraseObservation(H, mp, k) == [ H EXCEPT !.mObservations[mp] = @ \ {k} ]

\* KeyFrame::UpdateConnections, lines 386-416: the tally of shared landmarks
Tally(H, k, o) ==
    Cardinality({ i \in DOMAIN H.mvpMapPoints[k] :
                    /\ H.mvpMapPoints[k][i] # NULL
                    /\ ~isBadMP(H, H.mvpMapPoints[k][i])
                    /\ o \in GetObservations(H, H.mvpMapPoints[k][i]) })

\* (the keyframes of a heap are the domain of its member functions)
KFcounter(H, k) ==
    LET cands == { o \in DOMAIN H.mbBad : /\ o # k
                              /\ ~isBad(H, o)
                              /\ GetMap(o) = GetMap(k)
                              /\ Tally(H, k, o) > 0 }
    IN  [ o \in cands |-> Tally(H, k, o) ]

\* apply n->AddConnection(k, w[n]) for the keyframes of a sequence, in order
RECURSIVE AddConnections(_, _, _, _)
AddConnections(H, todo, k, w) ==
    IF todo = << >> THEN H
    ELSE AddConnections(AddConnection(H, Head(todo), k, w[Head(todo)]), Tail(todo), k, w)

\* UpdateConnections that promotes only the tallies above the threshold
UpdateConnections_StrictThreshold(H, k) ==
    LET cnt    == KFcounter(H, k)
        nmax   == CHOOSE v \in { cnt[o] : o \in DOMAIN cnt } :
                      \A o \in DOMAIN cnt : cnt[o] <= v
        \* the first keyframe, in pointer order, that holds the maximum
        pKFmax == CHOOSE o \in DOMAIN cnt :
                      /\ cnt[o] = nmax
                      /\ \A p \in DOMAIN cnt : cnt[p] = nmax /\ p # o => addr[o] < addr[p]
        over   == { o \in DOMAIN cnt : cnt[o] > th }
        promo  == IF over = {} THEN {pKFmax} ELSE over
        H1     == AddConnections(H, InAddrOrder(promo), k, cnt)
        srt    == SortDesc({ << cnt[o], o >> : o \in promo })
        H2     == [ H1 EXCEPT
                      !.mConnectedKeyFrameWeights[k]    = cnt,
                      !.mvpOrderedConnectedKeyFrames[k] = [i \in 1 .. Len(srt) |-> srt[i][2]],
                      !.mvOrderedWeights[k]             = [i \in 1 .. Len(srt) |-> srt[i][1]] ]
    IN  IF DOMAIN cnt = {} THEN H
        ELSE IF H2.mbFirstConnection[k] /\ k # InitKFid
        THEN [ AddChild([ H2 EXCEPT !.mpParent[k] = srt[1][2] ], srt[1][2], k)
                   EXCEPT !.mbFirstConnection[k] = FALSE ]
        ELSE H2

\* UpdateConnections that applies the first-connection rule on every call
UpdateConnections_AlwaysReparent(H, k) ==
    LET cnt    == KFcounter(H, k)
        nmax   == CHOOSE v \in { cnt[o] : o \in DOMAIN cnt } :
                      \A o \in DOMAIN cnt : cnt[o] <= v
        \* the first keyframe, in pointer order, that holds the maximum
        pKFmax == CHOOSE o \in DOMAIN cnt :
                      /\ cnt[o] = nmax
                      /\ \A p \in DOMAIN cnt : cnt[p] = nmax /\ p # o => addr[o] < addr[p]
        over   == { o \in DOMAIN cnt : cnt[o] >= th }
        promo  == IF over = {} THEN {pKFmax} ELSE over
        H1     == AddConnections(H, InAddrOrder(promo), k, cnt)
        srt    == SortDesc({ << cnt[o], o >> : o \in promo })
        H2     == [ H1 EXCEPT
                      !.mConnectedKeyFrameWeights[k]    = cnt,
                      !.mvpOrderedConnectedKeyFrames[k] = [i \in 1 .. Len(srt) |-> srt[i][2]],
                      !.mvOrderedWeights[k]             = [i \in 1 .. Len(srt) |-> srt[i][1]] ]
    IN  IF DOMAIN cnt = {} THEN H
        ELSE IF k # InitKFid
        THEN [ AddChild([ H2 EXCEPT !.mpParent[k] = srt[1][2] ], srt[1][2], k)
                   EXCEPT !.mbFirstConnection[k] = FALSE ]
        ELSE H2

\* KeyFrame::UpdateConnections
UpdateConnections(H, k) ==
    LET cnt    == KFcounter(H, k)
        nmax   == CHOOSE v \in { cnt[o] : o \in DOMAIN cnt } :
                      \A o \in DOMAIN cnt : cnt[o] <= v
        \* the first keyframe, in pointer order, that holds the maximum
        pKFmax == CHOOSE o \in DOMAIN cnt :
                      /\ cnt[o] = nmax
                      /\ \A p \in DOMAIN cnt : cnt[p] = nmax /\ p # o => addr[o] < addr[p]
        over   == { o \in DOMAIN cnt : cnt[o] >= th }
        promo  == IF over = {} THEN {pKFmax} ELSE over
        H1     == AddConnections(H, InAddrOrder(promo), k, cnt)
        srt    == SortDesc({ << cnt[o], o >> : o \in promo })
        H2     == [ H1 EXCEPT
                      !.mConnectedKeyFrameWeights[k]    = cnt,
                      !.mvpOrderedConnectedKeyFrames[k] = [i \in 1 .. Len(srt) |-> srt[i][2]],
                      !.mvOrderedWeights[k]             = [i \in 1 .. Len(srt) |-> srt[i][1]] ]
    IN  IF DOMAIN cnt = {} THEN H
        ELSE IF H2.mbFirstConnection[k] /\ k # InitKFid
        THEN [ AddChild([ H2 EXCEPT !.mpParent[k] = srt[1][2] ], srt[1][2], k)
                   EXCEPT !.mbFirstConnection[k] = FALSE ]
        ELSE H2

\* KeyFrame::AddLoopEdge, AddMergeEdge, SetNotErase
AddLoopEdge(H, k, pKF) ==
    [ H EXCEPT !.mbNotErase[k] = TRUE, !.mspLoopEdges[k] = @ \cup {pKF} ]
AddMergeEdge(H, k, pKF) ==
    [ H EXCEPT !.mbNotErase[k] = TRUE, !.mspMergeEdges[k] = @ \cup {pKF} ]
SetNotErase(H, k) == [ H EXCEPT !.mbNotErase[k] = TRUE ]

\* KeyFrame::SetFirstConnection
SetFirstConnection(H, k, bFirst) == [ H EXCEPT !.mbFirstConnection[k] = bFirst ]

\* ------------------------------------------------------------------ culling
\* KeyFrame::SetBadFlag, lines 593-596: every neighbour recorded in this
\* keyframe's own weight map drops its edge to this keyframe
RECURSIVE EraseConnections(_, _, _)
EraseConnections(H, todo, k) ==
    IF todo = << >> THEN H
    ELSE EraseConnections(EraseConnection(H, Head(todo), k), Tail(todo), k)

\* KeyFrame::SetBadFlag, lines 598-604: every landmark in a slot drops its
\* observation of this keyframe
RECURSIVE EraseObservations(_, _, _)
EraseObservations(H, i, k) ==
    IF i > Len(H.mvpMapPoints[k]) THEN H
    ELSE IF H.mvpMapPoints[k][i] # NULL
    THEN EraseObservations(EraseObservation(H, H.mvpMapPoints[k][i], k), i + 1, k)
    ELSE EraseObservations(H, i + 1, k)

\* KeyFrame::SetBadFlag, lines 628-653: the (child, parent) pairs the scan
\* compares, as <<child, position in the child's ordered list>>
ReparentPairs(H, k, sParentCandidates) ==
    { << c, i >> \in H.mspChildrens[k] \X (1 .. Cardinality(DOMAIN H.mbBad)) :
          /\ ~isBad(H, c)
          /\ i <= Len(H.mvpOrderedConnectedKeyFrames[c])
          /\ H.mvpOrderedConnectedKeyFrames[c][i] \in sParentCandidates }

PairWeight(H, pr) == GetWeight(H, pr[1], H.mvpOrderedConnectedKeyFrames[pr[1]][pr[2]])

\* the pair kept by "if (w > max)": of maximal weight, the first one met when
\* the children are scanned in pointer order and each list front to back
BestPair(H, k, sParentCandidates) ==
    LET prs == ReparentPairs(H, k, sParentCandidates)
        before(p, q) == \/ addr[p[1]] < addr[q[1]]
                        \/ p[1] = q[1] /\ p[2] < q[2]
    IN  CHOOSE p \in prs :
            \A q \in prs \ {p} : \/ PairWeight(H, q) < PairWeight(H, p)
                                 \/ PairWeight(H, q) = PairWeight(H, p) /\ before(p, q)

\* KeyFrame::SetBadFlag, lines 620-663: the while loop
RECURSIVE ReparentLoop(_, _, _)
ReparentLoop(H, k, sParentCandidates) ==
    IF H.mspChildrens[k] = {} \/ ReparentPairs(H, k, sParentCandidates) = {}
    THEN H
    ELSE LET best == BestPair(H, k, sParentCandidates)
             pC   == best[1]
             pP   == H.mvpOrderedConnectedKeyFrames[pC][best[2]]
             H1   == ChangeParent(H, pC, pP)
         IN  IF H1.status # "ok" THEN H1
             ELSE ReparentLoop([ H1 EXCEPT !.mspChildrens[k] = @ \ {pC} ],
                               k, sParentCandidates \cup {pC})

\* KeyFrame::SetBadFlag, lines 666-672: the children left over adopt mpParent.
\* ub is what the build does when ChangeParent dereferences a null parent:
\* "crash" stops the process, "continue" returns from the call.
RECURSIVE ForceParent(_, _, _, _)
ForceParent(H, todo, pKF, ub) ==
    IF todo = << >> THEN H
    ELSE LET H1 == ChangeParent(H, Head(todo), pKF)
         IN  IF H1.status = "throw" THEN H1
             ELSE IF H1.status = "ub"
             THEN IF ub = "crash"
                  THEN [ H1 EXCEPT !.status = "crash" ]
                  ELSE ForceParent([ H1 EXCEPT !.status = "ok" ], Tail(todo), pKF, ub)
             ELSE ForceParent(H1, Tail(todo), pKF, ub)

\* KeyFrame::SetBadFlag, lines 606-679: the part run under both locks
SetBadFlagLocked(H, k, ub) ==
    LET H1 == [ H EXCEPT !.mConnectedKeyFrameWeights[k]    = EmptyMap,
                         !.mvpOrderedConnectedKeyFrames[k] = << >> ]
        par == H1.mpParent[k]
        H2 == ReparentLoop(H1, k, IF par # NULL THEN {par} ELSE {})
        H3 == IF H2.status # "ok" THEN H2
              ELSE ForceParent(H2, InAddrOrder(H2.mspChildrens[k]), par, ub)
        H4 == IF par # NULL THEN EraseChild(H3, par, k) ELSE H3
    IN  IF H3.status # "ok" THEN H3
        ELSE [ H4 EXCEPT !.mbBad[k] = TRUE ]

\* Map::EraseKeyFrame and KeyFrameDatabase::erase
EraseKeyFrame(H, k) ==
    [ H EXCEPT !.mspKeyFrames = @ \ {k}, !.mpKeyFrameDB = @ \ {k} ]

\* SetBadFlag without the test for the initial keyframe of the map
SetBadFlag_NoRootCheck(H, k, ub) ==
    IF H.mbNotErase[k] THEN [ H EXCEPT !.mbToBeErased[k] = TRUE ]
    ELSE LET H1 == EraseConnections(
                       H, InAddrOrder(DOMAIN H.mConnectedKeyFrameWeights[k]), k)
             H2 == EraseObservations(H1, 1, k)
             H3 == SetBadFlagLocked(H2, k, ub)
         IN  IF H3.status # "ok" THEN H3 ELSE EraseKeyFrame(H3, k)

\* SetBadFlag that sets the to-be-erased flag under the guard but does not
\* return there
SetBadFlag_NoGuardReturn(H, k, ub) ==
    IF k = InitKFid THEN H
    ELSE LET H0 == IF H.mbNotErase[k] THEN [ H EXCEPT !.mbToBeErased[k] = TRUE ] ELSE H
             H1 == EraseConnections(
                       H0, InAddrOrder(DOMAIN H0.mConnectedKeyFrameWeights[k]), k)
             H2 == EraseObservations(H1, 1, k)
             H3 == SetBadFlagLocked(H2, k, ub)
         IN  IF H3.status # "ok" THEN H3 ELSE EraseKeyFrame(H3, k)

\* KeyFrame::SetBadFlag
SetBadFlag(H, k, ub) ==
    IF k = InitKFid THEN H
    ELSE IF H.mbNotErase[k] THEN [ H EXCEPT !.mbToBeErased[k] = TRUE ]
    ELSE LET H1 == EraseConnections(
                       H, InAddrOrder(DOMAIN H.mConnectedKeyFrameWeights[k]), k)
             H2 == EraseObservations(H1, 1, k)
             H3 == SetBadFlagLocked(H2, k, ub)
         IN  IF H3.status # "ok" THEN H3 ELSE EraseKeyFrame(H3, k)

\* SetErase that also takes back the bad flag when it lifts the guard
SetErase_ClearsBad(H, k, ub) ==
    LET H1 == IF H.mspLoopEdges[k] = {}
              THEN [ H EXCEPT !.mbNotErase[k] = FALSE, !.mbBad[k] = FALSE ]
              ELSE H
    IN  IF H1.mbToBeErased[k] THEN SetBadFlag(H1, k, ub) ELSE H1

\* SetErase that lifts the guard and forgets the deferred deletion
SetErase_DropsDeferred(H, k, ub) ==
    IF H.mspLoopEdges[k] = {}
    THEN [ H EXCEPT !.mbNotErase[k] = FALSE ]
    ELSE H

\* KeyFrame::SetErase
SetErase(H, k, ub) ==
    LET H1 == IF H.mspLoopEdges[k] = {}
              THEN [ H EXCEPT !.mbNotErase[k] = FALSE ]
              ELSE H
    IN  IF H1.mbToBeErased[k] THEN SetBadFlag(H1, k, ub) ELSE H1

\* MapPoint::SetBadFlag, first critical section: the landmark turns bad and
\* forgets its observers (the observers' slots are erased afterwards, one
\* KeyFrame::EraseMapPointMatch call each)
MapPointSetBadFlag(H, mp) ==
    [ H EXCEPT !.mbBadMP[mp] = TRUE, !.mObservations[mp] = {} ]

\* KeyFrame::EraseMapPointMatch(const int &idx)
EraseMapPointMatch(H, k, idx) == [ H EXCEPT !.mvpMapPoints[k][idx] = NULL ]

\* ---------------------------------------------------------------------- pose
\* A pose (Sophus::SE3f) is a rotation and a translation.  The rotations of
\* the model are the identity (0) and the half turns about the y axis (1),
\* the x axis (2) and the z axis (3); translations and points are integer
\* vectors.
Rot(r, P) == IF r = 0 THEN P
             ELSE IF r = 1 THEN << 0 - P[1], P[2], 0 - P[3] >>
             ELSE IF r = 2 THEN << P[1], 0 - P[2], 0 - P[3] >>
             ELSE << 0 - P[1], 0 - P[2], P[3] >>
VecAdd(P, Q) == << P[1] + Q[1], P[2] + Q[2], P[3] + Q[3] >>
VecNeg(P) == << 0 - P[1], 0 - P[2], 0 - P[3] >>

Identity == [so3 |-> 0, translation |-> << 0, 0, 0 >>]

\* Sophus::SE3f::inverse (a half turn is its own inverse)
Inverse(T) == [so3 |-> T.so3, translation |-> VecNeg(Rot(T.so3, T.translation))]

\* the product of two rotations: the half turns about two axes compose to
\* the half turn about the third (3, the z axis)
RotMul(r, s) == IF r = 0 THEN s ELSE IF s = 0 THEN r ELSE IF r = s THEN 0 ELSE 6 - r - s

\* the product of two poses
Compose(T, U) == [so3 |-> RotMul(T.so3, U.so3),
                  translation |-> VecAdd(Rot(T.so3, U.translation), T.translation)]

\* a member no constructor and no setter has assigned yet
Uninit == << >>

\* IMU::Calib of a keyframe built from a frame without inertial calibration
NoCalib == [mbIsSet |-> FALSE, mTcb |-> Identity]

\* KeyFrame::GetImuPose
GetImuPose(H, k) == Compose(H.mTwc[k], H.mImuCalib[k].mTcb)

\* KeyFrame::SetPose
SetPose(H, k, Tcw) ==
    LET Twc == Inverse(Tcw)
    IN  [ H EXCEPT !.mTcw[k] = Tcw,
                   !.mRcw[k] = Tcw.so3,
                   !.mTwc[k] = Twc,
                   !.mRwc[k] = Twc.so3,
                   !.mOwb[k] = IF H.mImuCalib[k].mbIsSet
                               THEN VecAdd(Rot(Twc.so3, H.mImuCalib[k].mTcb.translation),
                                           Twc.translation)
                               ELSE @ ]

\* float values: a fraction n/d with d > 0, an infinity (d = 0, n its sign)
\* or a NaN (n = 0, d = 0); finite results are exact
Fin(n, d) == [n |-> n, d |-> d]
FloatOf(i) == Fin(i, 1)
NaN == Fin(0, 0)
IsNaN(a) == a.n = 0 /\ a.d = 0
IsInf(a) == a.n # 0 /\ a.d = 0
Sgn(i) == IF i > 0 THEN 1 ELSE IF i < 0 THEN 0 - 1 ELSE 0

\* the fraction n/d in lowest terms
RECURSIVE Gcd(_, _)
Gcd(a, b) == IF b = 0 THEN a ELSE Gcd(b, a % b)
Abs(i) == IF i < 0 THEN 0 - i ELSE i
Lowest(n, d) == LET g == Gcd(Abs(n), d) IN Fin(n \div g, d \div g)

\* 1.0f / z for an integer z: dividing by zero gives +infinity
FInv(z) == IF z = 0 THEN Fin(1, 0)
           ELSE IF z > 0 THEN Fin(1, z) ELSE Fin(0 - 1, 0 - z)

FMul(a, b) ==
    IF IsNaN(a) \/ IsNaN(b) THEN NaN
    ELSE IF IsInf(a) \/ IsInf(b) THEN Fin(Sgn(a.n) * Sgn(b.n), 0)
    ELSE Lowest(a.n * b.n, a.d * b.d)

FAdd(a, b) ==
    IF IsNaN(a) \/ IsNaN(b) THEN NaN
    ELSE IF IsInf(a) /\ IsInf(b) THEN (IF a.n = b.n THEN a ELSE NaN)
    ELSE IF IsInf(a) THEN a
    ELSE IF IsInf(b) THEN b
    ELSE Lowest(a.n * b.d + b.n * a.d, a.d * b.d)

\* a < b; every comparison with a NaN is false
FLess(a, b) ==
    IF IsNaN(a) \/ IsNaN(b) THEN FALSE
    ELSE IF IsInf(a) /\ IsInf(b) THEN a.n < b.n
    ELSE a.n * b.d < b.n * a.d

\* the calibration of the camera (pixels) and the distortion coefficients
fx == 3
fy == 3
cx == 2
cy == 2
mnMinX == 0
mnMaxX == 4
mnMinY == 0
mnMaxY == 4
mDistCoef == << 0, 0, 0, 0 >>

\* MapPoint::GetWorldPos: the landmarks lie on a grid around the origin
GetWorldPos(mp) ==
    << ((mp - 1) % 3) - 1, (mp - 1) \div 12, (((mp - 1) \div 3) % 4) - 1 >>

\* lines 1020-1043 and 1081-1104: the point in camera coordinates, the depth
\* test, the projection and the test against the image bounds
ProjectPoint(H, k, pMP) ==
    LET Pc   == VecAdd(Rot(H.mRcw[k], GetWorldPos(pMP)), H.mTcw[k].translation)
        invz == FInv(Pc[3])
        u    == FAdd(FMul(FloatOf(fx * Pc[1]), invz), FloatOf(cx))
        v    == FAdd(FMul(FloatOf(fy * Pc[2]), invz), FloatOf(cy))
    IN  IF Pc[3] < 0
        THEN [ok |-> FALSE, u |-> FloatOf(0), v |-> FloatOf(0)]
        ELSE IF FLess(u, FloatOf(mnMinX)) \/ FLess(FloatOf(mnMaxX), u)
        THEN [ok |-> FALSE, u |-> u, v |-> v]
        ELSE IF FLess(v, FloatOf(mnMinY)) \/ FLess(FloatOf(mnMaxY), v)
        THEN [ok |-> FALSE, u |-> u, v |-> v]
        ELSE [ok |-> TRUE, u |-> u, v |-> v]

\* KeyFrame::ProjectPointUnDistort
ProjectPointUnDistort(H, k, pMP) == ProjectPoint(H, k, pMP)

\* lines 1045-1067: the radial and tangential distortion of a pixel
Distort(u, v) ==
    LET x  == FMul(FAdd(u, FloatOf(0 - cx)), Fin(1, fx))
        y  == FMul(FAdd(v, FloatOf(0 - cy)), Fin(1, fy))
        r2 == FAdd(FMul(x, x), FMul(y, y))
        k1 == FloatOf(mDistCoef[1])
        k2 == FloatOf(mDistCoef[2])
        p1 == FloatOf(mDistCoef[3])
        p2 == FloatOf(mDistCoef[4])
        k3 == FloatOf(IF Len(mDistCoef) = 5 THEN mDistCoef[5] ELSE 0)
        two == FloatOf(2)
        rad == FAdd(FAdd(FAdd(FloatOf(1), FMul(k1, r2)), FMul(k2, FMul(r2, r2))),
                    FMul(k3, FMul(r2, FMul(r2, r2))))
        xd == FAdd(FMul(x, rad),
                   FAdd(FMul(two, FMul(p1, FMul(x, y))),
                        FMul(p2, FAdd(r2, FMul(two, FMul(x, x))))))
        yd == FAdd(FMul(y, rad),
                   FAdd(FMul(p1, FAdd(r2, FMul(two, FMul(y, y)))),
                        FMul(two, FMul(p2, FMul(x, y)))))
    IN  << FAdd(FMul(xd, FloatOf(fx)), FloatOf(cx)),
           FAdd(FMul(yd, FloatOf(fy)), FloatOf(cy)) >>

\* KeyFrame::ProjectPointDistort
ProjectPointDistort(H, k, pMP) ==
    LET pr == ProjectPoint(H, k, pMP)
        d  == Distort(pr.u, pr.v)
    IN  IF pr.ok THEN [ok |-> TRUE, u |-> d[1], v |-> d[2]] ELSE pr

\* ------------------------------------------------------------ save and load
\* mnId of a keyframe or landmark: the objects of the model are named by it
mnId(x) == x

\* std::map<id, T*>::operator[] over a dictionary holding the ids in dict: an
\* id that is not a key is inserted with a null pointer
Lookup(dict, id) == IF id \in dict THEN id ELSE NULL
LookupCam(dict, id) == IF id \in { GetId(c) : c \in dict } THEN CamById(id) ELSE NULL

\* the ids pushed while iterating a std::set<KeyFrame*> filtered by spKF
BackupIds(S, spKF) ==
    LET v == InAddrOrder(S \cap spKF) IN [i \in 1 .. Len(v) |-> mnId(v[i])]

\* KeyFrame::PreSave
PreSave(H, k, spKF, spMP, spCam) ==
    LET slots == H.mvpMapPoints[k]
        m     == H.mConnectedKeyFrameWeights[k]
    IN  [ H EXCEPT !.backup[k] =
            [ mvBackupMapPointsId |->
                  [i \in 1 .. Len(slots) |->
                      IF slots[i] # NULL /\ slots[i] \in spMP THEN mnId(slots[i]) ELSE -1],
              mBackupConnectedKeyFrameIdWeights |->
                  [id \in { mnId(n) : n \in (DOMAIN m) \cap spKF } |-> m[id]],
              mBackupParentId |->
                  IF H.mpParent[k] # NULL /\ H.mpParent[k] \in spKF
                  THEN mnId(H.mpParent[k]) ELSE -1,
              mvBackupChildrensId  |-> BackupIds(H.mspChildrens[k], spKF),
              mvBackupLoopEdgesId  |-> BackupIds(H.mspLoopEdges[k], spKF),
              mvBackupMergeEdgesId |-> BackupIds(H.mspMergeEdges[k], spKF),
              mnBackupIdCamera |->
                  IF H.mpCamera[k] # NULL /\ H.mpCamera[k] \in spCam
                  THEN GetId(H.mpCamera[k]) ELSE -1 ] ]

\* A keyframe read back from an archive: KeyFrame::KeyFrame() gives the
\* pointer members their default values, the backup members and the flags
\* are the stored ones, the members derived from the pose are recomputed by
\* PostLoad.
Reload(H, k) ==
    [ H EXCEPT !.mConnectedKeyFrameWeights[k]    = EmptyMap,
               !.mvpOrderedConnectedKeyFrames[k] = << >>,
               !.mvOrderedWeights[k]             = << >>,
               !.mpParent[k]                     = NULL,
               !.mspChildrens[k]                 = {},
               !.mspLoopEdges[k]                 = {},
               !.mspMergeEdges[k]                = {},
               !.mvpMapPoints[k]                 = [i \in 1 .. Len(@) |-> NULL],
               !.mpCamera[k]                     = NULL,
               !.mRcw[k]                         = Identity.so3,
               !.mTwc[k]                         = Identity,
               !.mRwc[k]                         = Identity.so3 ]

\* the weight map rebuilt from the stored ids: one assignment per stored id in
\* ascending id order, so the ids that do not resolve share the null key and
\* the largest of them leaves its weight there
RestoredWeights(b, mpKFid) ==
    LET ids  == DOMAIN b
        lost == { id \in ids : Lookup(mpKFid, id) = NULL }
        last == CHOOSE id \in lost : \A o \in lost : o <= id
    IN  [n \in { Lookup(mpKFid, id) : id \in ids } |->
            IF n = NULL THEN b[last] ELSE b[n]]

\* PostLoadMembers taking the parent id 0 for the "no parent" mark
PostLoadMembers_ParentIdPositive(H, k, mpKFid, mpMPid, mpCamId) ==
    LET b == H.backup[k]
    IN  [ SetPose(H, k, H.mTcw[k]) EXCEPT
            !.mvpMapPoints[k] =
                [i \in 1 .. Len(@) |->
                    IF b.mvBackupMapPointsId[i] # -1
                    THEN Lookup(mpMPid, b.mvBackupMapPointsId[i]) ELSE NULL],
            !.mConnectedKeyFrameWeights[k] =
                RestoredWeights(b.mBackupConnectedKeyFrameIdWeights, mpKFid),
            !.mpParent[k] =
                IF b.mBackupParentId > 0 THEN Lookup(mpKFid, b.mBackupParentId) ELSE @,
            !.mspChildrens[k]  = { Lookup(mpKFid, id) : id \in Range(b.mvBackupChildrensId) },
            !.mspLoopEdges[k]  = { Lookup(mpKFid, id) : id \in Range(b.mvBackupLoopEdgesId) },
            !.mspMergeEdges[k] = { Lookup(mpKFid, id) : id \in Range(b.mvBackupMergeEdgesId) },
            !.mpCamera[k] =
                IF b.mnBackupIdCamera >= 0 THEN LookupCam(mpCamId, b.mnBackupIdCamera) ELSE @,
            !.backup[k] =
                [ b EXCEPT !.mvBackupMapPointsId               = << >>,
                           !.mBackupConnectedKeyFrameIdWeights = EmptyMap,
                           !.mvBackupChildrensId               = << >>,
                           !.mvBackupLoopEdgesId               = << >>] ]

\* the members PostLoad assigns before it sorts the neighbours
PostLoadMembers(H, k, mpKFid, mpMPid, mpCamId) ==
    LET b == H.backup[k]
    IN  [ SetPose(H, k, H.mTcw[k]) EXCEPT
            !.mvpMapPoints[k] =
                [i \in 1 .. Len(@) |->
                    IF b.mvBackupMapPointsId[i] # -1
                    THEN Lookup(mpMPid, b.mvBackupMapPointsId[i]) ELSE NULL],
            !.mConnectedKeyFrameWeights[k] =
                RestoredWeights(b.mBackupConnectedKeyFrameIdWeights, mpKFid),
            !.mpParent[k] =
                IF b.mBackupParentId >= 0 THEN Lookup(mpKFid, b.mBackupParentId) ELSE @,
            !.mspChildrens[k]  = { Lookup(mpKFid, id) : id \in Range(b.mvBackupChildrensId) },
            !.mspLoopEdges[k]  = { Lookup(mpKFid, id) : id \in Range(b.mvBackupLoopEdgesId) },
            !.mspMergeEdges[k] = { Lookup(mpKFid, id) : id \in Range(b.mvBackupMergeEdgesId) },
            !.mpCamera[k] =
                IF b.mnBackupIdCamera >= 0 THEN LookupCam(mpCamId, b.mnBackupIdCamera) ELSE @,
            !.backup[k] =
                [ b EXCEPT !.mvBackupMapPointsId               = << >>,
                           !.mBackupConnectedKeyFrameIdWeights = EmptyMap,
                           !.mvBackupChildrensId               = << >>,
                           !.mvBackupLoopEdgesId               = << >>] ]

\* UpdateBestCovisibles over a weight map with a null key: the isBad() call
\* on the null neighbour is undefined; nullBad is what the read produced when
\* the process survived it, and a null pointer sorts before every object
NullListed(H, k, nullBad) ==
    LET m    == H.mConnectedKeyFrameWeights[k]
        rest == UpdateBestCovisibles(
                    [H EXCEPT !.mConnectedKeyFrameWeights[k] = MapErase(m, NULL)], k)
        kfs  == rest.mvpOrderedConnectedKeyFrames[k]
        ws   == rest.mvOrderedWeights[k]
        at   == Cardinality({ i \in 1 .. Len(ws) : ws[i] >= m[NULL] })
    IN  IF nullBad
        THEN [ H EXCEPT !.mvpOrderedConnectedKeyFrames[k] = kfs,
                        !.mvOrderedWeights[k]             = ws ]
        ELSE [ H EXCEPT !.mvpOrderedConnectedKeyFrames[k] =
                            SubSeq(kfs, 1, at) \o << NULL >> \o SubSeq(kfs, at + 1, Len(kfs)),
                        !.mvOrderedWeights[k] =
                            SubSeq(ws, 1, at) \o << m[NULL] >> \o SubSeq(ws, at + 1, Len(ws)) ]

\* KeyFrame::PostLoad
PostLoad(H, k, mpKFid, mpMPid, mpCamId, ub) ==
    LET H1 == PostLoadMembers(H, k, mpKFid, mpMPid, mpCamId)
    IN  IF NULL \in DOMAIN H1.mConnectedKeyFrameWeights[k]
        THEN IF ub = "crash"
             THEN [ H1 EXCEPT !.status = "crash" ]
             ELSE NullListed(H1, k, ub = "bad")
        ELSE UpdateBestCovisibles(H1, k)

\* ------------------------------------------------------------ initial state
\* Keyframes are constructed (KeyFrame::KeyFrame) with the landmark slots of
\* their frame; the landmarks list their observers.  Landmarks 1..NBulk are
\* seen by the keyframes 0..b, landmark NMP by the keyframes s..NKF-1, where
\* the two runs overlap in one or two keyframes.
Layouts ==
    { [bulk |-> 0 .. b, one |-> s .. (NKF - 1)] :
          << b, s >> \in { p \in (1 .. (NKF - 1)) \X (0 .. (NKF - 2)) :
                              p[2] = p[1] \/ p[2] = p[1] - 1 } }
AddrChoices == { [k \in KF |-> k + 1], [k \in KF |-> NKF - k] }

\* the intrinsic parameters of a camera model as calibrated
CamParams == << fx, fy, cx, cy >>

\* no pose vertex has been built
NoVertex == [kf |-> NULL]

\* System::System, line 53: no mode request is pending; the tracker is not in
\* only-tracking mode and the local mapper runs.  pc is the place of the
\* thread inside Track*, calls are the calls that Track* call has made on the
\* tracker and the local mapper, entry the two requests it found pending.
MappingMode ==
    [ mbActivateLocalizationMode   |-> FALSE,
      mbDeactivateLocalizationMode |-> FALSE,
      mMutexMode                   |-> 0,
      mbOnlyTracking               |-> FALSE,
      mbStopRequested              |-> FALSE,
      mbStopped                    |-> FALSE,
      pc                           |-> "idle",
      calls                        |-> << >>,
      entry                        |-> << FALSE, FALSE >> ]

Constructed ==
    /\ mConnectedKeyFrameWeights = [k \in KF |-> EmptyMap]
    /\ mvpOrderedConnectedKeyFrames = [k \in KF |-> << >>]
    /\ mvOrderedWeights = [k \in KF |-> << >>]
    /\ mpParent = [k \in KF |-> NULL]
    /\ mspChildrens = [k \in KF |-> {}]
    /\ mbFirstConnection = [k \in KF |-> TRUE]
    /\ mbNotErase = [k \in KF |-> FALSE]
    /\ mbToBeErased = [k \in KF |-> FALSE]
    /\ mbBad = [k \in KF |-> FALSE]
    /\ mspLoopEdges = [k \in KF |-> {}]
    /\ mspMergeEdges = [k \in KF |-> {}]
    /\ \E lay \in Layouts :
          /\ mObservations = [mp \in MP |-> IF mp \in BulkMP THEN lay.bulk ELSE lay.one]
          /\ mvpMapPoints = [k \in KF |->
                 [i \in 1 .. NMP |->
                     IF k \in (IF i \in BulkMP THEN lay.bulk ELSE lay.one) THEN i ELSE NULL]]
    /\ mbBadMP = [mp \in MP |-> FALSE]
    /\ mspKeyFrames = KF
    /\ mpKeyFrameDB = KF
    /\ mpCamera = [k \in KF |-> CamBase]
    /\ mTcw = [k \in KF |-> Identity]
    /\ mRcw = [k \in KF |-> Identity.so3]
    /\ mTwc = [k \in KF |-> Identity]
    /\ mRwc = [k \in KF |-> Identity.so3]
    /\ mOwb = [k \in KF |-> Uninit]
    /\ mImuCalib = [k \in KF |-> NoCalib]
    /\ mvParameters = [c \in Cam |-> CamParams]
    /\ _estimate = NoVertex
    /\ nNextId = NKF
    /\ mnIds = [k \in KF \cup Fresh |-> IF k \in KF THEN mnId(k) ELSE NULL]
    /\ System = MappingMode
    /\ backup = [k \in KF |-> NoBackup]
    /\ snap = [k \in KF |-> NoSnap]
    /\ mMutexConnections = [k \in KF |-> 0]
    /\ mMutexFeatures = [k \in KF |-> 0]
    /\ mMutexPose = [k \in KF |-> 0]
    /\ thread = [t \in Threads |-> Idle]
    /\ addr \in AddrChoices
    /\ ucAssigned = [k \in KF |-> 0]
    /\ ret = [op |-> "none", kf |-> NULL, arg |-> NULL, status |-> "ok"]

Init == Constructed /\ nOps = 0

\* ------------------------------------------------------------------ actions
UBOutcomes == {"crash", "continue"}

\* a call can be issued: the process is alive and the budget is not spent
CanCall == ret.status # "crash" /\ nOps < MaxOps

Call(op, k, arg, H) ==
    /\ Commit(H)
    /\ ret' = [op |-> op, kf |-> k, arg |-> arg, status |-> H.status]
    /\ nOps' = nOps + 1
    \* the first-connection branch of UpdateConnections is the one that clears
    \* the flag
    /\ ucAssigned' = IF op = "UpdateConnections" /\ mbFirstConnection[k]
                                                /\ ~H.mbFirstConnection[k]
                     THEN [ucAssigned EXCEPT ![k] = @ + 1]
                     ELSE ucAssigned
    /\ UNCHANGED << addr, snap, mMutexConnections, mMutexFeatures, mMutexPose, thread >>

Op_UpdateConnections(k) ==
    /\ CanCall /\ ~mbBad[k]
    /\ Call("UpdateConnections", k, NULL, UpdateConnections(Heap, k))

\* the initial keyframe stays the root: it is never the receiver
Op_ChangeParent(k, pKF) ==
    /\ CanCall /\ k # InitKFid /\ ~mbBad[k] /\ ~mbBad[pKF]
    /\ Call("ChangeParent", k, pKF, ChangeParent(Heap, k, pKF))

Op_AddLoopEdge(k, pKF) ==
    /\ CanCall /\ ~mbBad[k] /\ ~mbBad[pKF] /\ pKF # k
    /\ Call("AddLoopEdge", k, pKF, AddLoopEdge(Heap, k, pKF))

Op_AddMergeEdge(k, pKF) ==
    /\ CanCall /\ ~mbBad[k] /\ ~mbBad[pKF] /\ pKF # k
    /\ Call("AddMergeEdge", k, pKF, AddMergeEdge(Heap, k, pKF))

Op_SetNotErase(k) ==
    /\ CanCall /\ ~mbBad[k]
    /\ Call("SetNotErase", k, NULL, SetNotErase(Heap, k))

Op_SetErase(k) ==
    /\ CanCall
    /\ \E ub \in UBOutcomes : Call("SetErase", k, NULL, SetErase(Heap, k, ub))

Op_SetBadFlag(k) ==
    /\ CanCall
    /\ \E ub \in UBOutcomes : Call("SetBadFlag", k, NULL, SetBadFlag(Heap, k, ub))

Op_MapPointSetBadFlag(mp) ==
    /\ CanCall /\ ~mbBadMP[mp]
    /\ Call("MapPointSetBadFlag", NULL, mp, MapPointSetBadFlag(Heap, mp))

\* a match is erased when its landmark was culled or when an optimization
\* rejects the observation as an outlier
Op_EraseMapPointMatch(k, idx) ==
    /\ CanCall /\ ~mbBad[k] /\ mvpMapPoints[k][idx] # NULL
    /\ Call("EraseMapPointMatch", k, idx, EraseMapPointMatch(Heap, k, idx))

\* the flag is a plain setter: a call does not count as a graph operation
Op_SetFirstConnection(k, bFirst) ==
    /\ CanCall /\ ~mbBad[k]
    /\ Commit(SetFirstConnection(Heap, k, bFirst))
    /\ ret' = [op |-> "SetFirstConnection", kf |-> k, arg |-> NULL, status |-> "ok"]
    /\ UNCHANGED << nOps, ucAssigned, addr, snap, mMutexConnections, mMutexFeatures, mMutexPose, thread >>

\* the keyframe a loop or merge edge is drawn to
Partner(k) == (k + 1) % NKF

\* the next keyframe that is not the initial one
Sibling(k) == IF k = NKF - 1 THEN 1 ELSE k + 1

Next ==
    \/ \E k \in KF : Op_UpdateConnections(k)
    \/ \E k \in KF : \E pKF \in {k, InitKFid, Sibling(k)} : Op_ChangeParent(k, pKF)
    \/ \E k \in KF \ {InitKFid} : Op_AddLoopEdge(k, Partner(k))
    \/ \E k \in KF \ {InitKFid} : Op_AddMergeEdge(k, Partner(k))
    \/ \E k \in KF \ {InitKFid} : Op_SetNotErase(k)
    \/ \E k \in KF : Op_SetErase(k)
    \/ \E k \in KF : Op_SetBadFlag(k)

Spec == Init /\ [][Next]_vars

\* the operations on the spanning tree together with the setter of the
\* first-connection flag
NextFirst ==
    \/ \E k \in KF : Op_UpdateConnections(k)
    \/ \E k \in KF : \E pKF \in {k, InitKFid, Sibling(k)} : Op_ChangeParent(k, pKF)
    \/ \E k \in KF : Op_SetBadFlag(k)
    \/ \E bFirst \in BOOLEAN : Op_SetFirstConnection(NKF - 1, bFirst)

SpecFirst == Init /\ [][NextFirst]_vars

\* The culling scenario: two keyframes more than in Spec; every keyframe but
\* the initial one is first linked into the map by its first
\* UpdateConnections call, in the order of the ids (nOps counts up from
\* -NCull during this phase), then the tree operations run.
NCull == NKF + 1               \* keyframes 0 .. NCull
KFCull == 0 .. NCull

LayoutsCull ==
    { [bulk |-> 0 .. b, one |-> s .. NCull] :
          << b, s >> \in { p \in (1 .. NCull) \X (0 .. (NCull - 1)) :
                              p[2] = p[1] \/ p[2] = p[1] - 1 } }
AddrChoicesCull == { [k \in KFCull |-> k + 1], [k \in KFCull |-> NCull + 1 - k] }

\* the heap right after the construction of the keyframes
ConstructedCull(lay) ==
    [ mConnectedKeyFrameWeights    |-> [k \in KFCull |-> EmptyMap],
      mvpOrderedConnectedKeyFrames |-> [k \in KFCull |-> << >>],
      mvOrderedWeights             |-> [k \in KFCull |-> << >>],
      mpParent                     |-> [k \in KFCull |-> NULL],
      mspChildrens                 |-> [k \in KFCull |-> {}],
      mbFirstConnection            |-> [k \in KFCull |-> TRUE],
      mbNotErase                   |-> [k \in KFCull |-> FALSE],
      mbToBeErased                 |-> [k \in KFCull |-> FALSE],
      mbBad                        |-> [k \in KFCull |-> FALSE],
      mspLoopEdges                 |-> [k \in KFCull |-> {}],
      mspMergeEdges                |-> [k \in KFCull |-> {}],
      mvpMapPoints                 |-> [k \in KFCull |->
                 [i \in 1 .. NMP |->
                     IF k \in (IF i \in BulkMP THEN lay.bulk ELSE lay.one) THEN i ELSE NULL]],
      mObservations                |-> [mp \in MP |-> IF mp \in BulkMP THEN lay.bulk ELSE lay.one],
      mbBadMP                      |-> [mp \in MP |-> FALSE],
      mspKeyFrames                 |-> KFCull,
      mpKeyFrameDB                 |-> KFCull,
      mpCamera                     |-> [k \in KFCull |-> CamBase],
      mTcw                         |-> [k \in KFCull |-> Identity],
      mRcw                         |-> [k \in KFCull |-> Identity.so3],
      mTwc                         |-> [k \in KFCull |-> Identity],
      mRwc                         |-> [k \in KFCull |-> Identity.so3],
      mOwb                         |-> [k \in KFCull |-> Uninit],
      mImuCalib                    |-> [k \in KFCull |-> NoCalib],
      mvParameters                 |-> [c \in Cam |-> CamParams],
      _estimate                    |-> NoVertex,
      nNextId                      |-> NCull + 1,
      mnIds                        |-> [k \in KFCull |-> mnId(k)],
      System                       |-> MappingMode,
      backup                       |-> [k \in KFCull |-> NoBackup],
      status                       |-> "ok" ]

InitCull ==
    /\ addr \in AddrChoicesCull
    /\ \E lay \in LayoutsCull :
          LET H == ConstructedCull(lay)
          IN  /\ mConnectedKeyFrameWeights    = H.mConnectedKeyFrameWeights
              /\ mvpOrderedConnectedKeyFrames = H.mvpOrderedConnectedKeyFrames
              /\ mvOrderedWeights             = H.mvOrderedWeights
              /\ mpParent                     = H.mpParent
              /\ mspChildrens                 = H.mspChildrens
              /\ mbFirstConnection            = H.mbFirstConnection
              /\ mbNotErase                   = H.mbNotErase
              /\ mbToBeErased                 = H.mbToBeErased
              /\ mbBad                        = H.mbBad
              /\ mspLoopEdges                 = H.mspLoopEdges
              /\ mspMergeEdges                = H.mspMergeEdges
              /\ mvpMapPoints                 = H.mvpMapPoints
              /\ mObservations                = H.mObservations
              /\ mbBadMP                      = H.mbBadMP
              /\ mspKeyFrames                 = H.mspKeyFrames
              /\ mpKeyFrameDB                 = H.mpKeyFrameDB
              /\ mpCamera                     = H.mpCamera
              /\ mTcw                         = H.mTcw
              /\ mRcw                         = H.mRcw
              /\ mTwc                         = H.mTwc
              /\ mRwc                         = H.mRwc
              /\ mOwb                         = H.mOwb
              /\ mImuCalib                    = H.mImuCalib
              /\ mvParameters                 = H.mvParameters
              /\ _estimate                    = H._estimate
              /\ nNextId                      = H.nNextId
              /\ mnIds                        = H.mnIds
              /\ System                       = H.System
              /\ backup                       = H.backup
    /\ snap = [k \in KFCull |-> NoSnap]
    /\ mMutexConnections = [k \in KFCull |-> 0]
    /\ mMutexFeatures = [k \in KFCull |-> 0]
    /\ mMutexPose = [k \in KFCull |-> 0]
    /\ thread = [t \in Threads |-> Idle]
    /\ ucAssigned = [k \in KFCull |-> 0]
    /\ ret = [op |-> "none", kf |-> NULL, arg |-> NULL, status |-> "ok"]
    /\ nOps = 0 - NCull

NextCull ==
    \/ nOps < 0 /\ Op_UpdateConnections(NCull + nOps + 1)
    \/ nOps >= 0 /\ \E k \in KFCull : Op_UpdateConnections(k)
    \/ nOps >= 0 /\ \E k \in KFCull \ {InitKFid}, pKF \in KFCull : Op_ChangeParent(k, pKF)
    \/ nOps >= 0 /\ \E k \in KFCull : Op_SetBadFlag(k)

SpecCull == InitCull /\ [][NextCull]_vars

\* the graph operations together with the erasure of the match of landmark NMP
NextSlots ==
    \/ Next
    \/ \E k \in KF : Op_EraseMapPointMatch(k, NMP)

SpecSlots == Init /\ [][NextSlots]_vars

\* the graph operations together with the culling of landmark NMP
NextMP ==
    \/ NextSlots
    \/ Op_MapPointSetBadFlag(NMP)

SpecMP == Init /\ [][NextMP]_vars

\* --------------------------------------------------- saving and restoring
\* the sets handed to PreSave and the keys of the dictionaries handed to
\* PostLoad: everything, all but the initial keyframe, all but the last
\* landmark and the camera
Everything == [kf |-> KF, mp |-> MP, cam |-> Cam]
SaveSets == { Everything,
              [kf |-> KF \ {InitKFid}, mp |-> MP, cam |-> Cam],
              [kf |-> KF, mp |-> BulkMP, cam |-> {}] }

AllLive == \A k \in KF : snap[k].stage = "live"

Op_PreSave(k, sets) ==
    /\ ret.status # "crash" /\ nOps >= 0 /\ AllLive
    /\ Commit(PreSave(Heap, k, sets.kf, sets.mp, sets.cam))
    /\ snap' = [snap EXCEPT ![k] =
                   [ stage                     |-> "saved",
                     fresh                     |-> FALSE,
                     saved                     |-> sets,
                     mConnectedKeyFrameWeights |-> mConnectedKeyFrameWeights[k],
                     mpParent                  |-> mpParent[k],
                     mspChildrens              |-> mspChildrens[k],
                     mspLoopEdges              |-> mspLoopEdges[k],
                     mspMergeEdges             |-> mspMergeEdges[k],
                     mvpMapPoints              |-> mvpMapPoints[k],
                     mpCamera                  |-> mpCamera[k] ]]
    /\ ret' = [op |-> "PreSave", kf |-> k, arg |-> sets, status |-> "ok"]
    /\ UNCHANGED << nOps, ucAssigned, addr, mMutexConnections, mMutexFeatures, mMutexPose, thread >>

Op_Reload(k) ==
    /\ ret.status # "crash" /\ snap[k].stage = "saved"
    /\ Commit(Reload(Heap, k))
    /\ snap' = [snap EXCEPT ![k].stage = "loaded", ![k].fresh = TRUE]
    /\ ret' = [op |-> "Reload", kf |-> k, arg |-> NULL, status |-> "ok"]
    /\ UNCHANGED << nOps, ucAssigned, addr, mMutexConnections, mMutexFeatures, mMutexPose, thread >>

\* PostLoad runs on the saved object or on the one read back
Op_PostLoad(k, dict) ==
    /\ ret.status # "crash" /\ snap[k].stage \in {"saved", "loaded"}
    /\ \E ub \in {"crash", "bad", "notbad"} :
          LET H == PostLoad(Heap, k, dict.kf, dict.mp, dict.cam, ub)
          IN  /\ Commit(H)
              /\ ret' = [op |-> "PostLoad", kf |-> k, arg |-> dict, status |-> H.status]
    /\ snap' = [snap EXCEPT ![k].stage = "restored"]
    /\ UNCHANGED << nOps, ucAssigned, addr, mMutexConnections, mMutexFeatures, mMutexPose, thread >>

\* The map is built first: every keyframe after the initial one is linked in
\* insertion order, then edges are added and parents changed; one keyframe is
\* then saved and restored.
InitSave == Constructed /\ nOps = 1 - NKF

NextSave ==
    \/ nOps < 0 /\ Op_UpdateConnections(NKF + nOps)
    \/ nOps >= 0 /\ AllLive /\ \E k \in KF \ {InitKFid} : Op_AddLoopEdge(k, Partner(k))
    \/ nOps >= 0 /\ AllLive /\ \E k \in KF \ {InitKFid} : Op_AddMergeEdge(k, Partner(k))
    \/ nOps >= 0 /\ AllLive /\ \E k \in KF \ {InitKFid} : Op_ChangeParent(k, Sibling(k))
    \/ \E k \in KF : \E sets \in SaveSets : Op_PreSave(k, sets)
    \/ \E k \in KF : Op_Reload(k)
    \/ \E k \in KF : \E dict \in SaveSets : Op_PostLoad(k, dict)

SpecSave == InitSave /\ [][NextSave]_vars

\* ------------------------------------------------- covisibility edges by hand
\* the weight of a new observation count: the stored one, or one above every
\* weight the linking produces
WeightChoices(k, pKF) == { GetWeight(Heap, k, pKF), 2 * th }

Op_AddConnection(k, pKF, weight) ==
    /\ CanCall /\ ~mbBad[k] /\ pKF # k
    /\ Call("AddConnection", k, << pKF, weight >>, AddConnection(Heap, k, pKF, weight))

\* the map is linked first; then edges are upserted while keyframes are culled
NextConn ==
    \/ nOps < 0 /\ Op_UpdateConnections(NKF + nOps)
    \/ nOps >= 0 /\ \E k \in KF : \E pKF \in KF : \E w \in WeightChoices(k, pKF) :
                       Op_AddConnection(k, pKF, w)
    \/ nOps >= 0 /\ \E k \in KF \ {InitKFid} : Op_SetBadFlag(k)

SpecConn == InitSave /\ [][NextConn]_vars

\* ------------------------------------------------------------- reprojection
\* the poses handed to SetPose
PoseChoices == { [so3 |-> 1, translation |-> << 0, 0, 2 >>],
                 [so3 |-> 2, translation |-> << 1, 0, 1 >>] }

Op_SetPose(k, Tcw) ==
    /\ CanCall
    /\ Call("SetPose", k, Tcw, SetPose(Heap, k, Tcw))

\* the out-parameters and the returned flag are the argument of the return
Op_ProjectPointDistort(k, pMP) ==
    /\ CanCall
    /\ Call("ProjectPointDistort", k,
            [pMP |-> pMP, out |-> ProjectPointDistort(Heap, k, pMP)], Heap)

Op_ProjectPointUnDistort(k, pMP) ==
    /\ CanCall
    /\ Call("ProjectPointUnDistort", k,
            [pMP |-> pMP, out |-> ProjectPointUnDistort(Heap, k, pMP)], Heap)

\* the landmarks are projected into the newest keyframe
NextProject ==
    \/ \E Tcw \in PoseChoices : Op_SetPose(NKF - 1, Tcw)
    \/ \E pMP \in MP : Op_ProjectPointDistort(NKF - 1, pMP)
    \/ \E pMP \in MP : Op_ProjectPointUnDistort(NKF - 1, pMP)

SpecProject == Init /\ [][NextProject]_vars

\* ------------------------------------------------------------ inertial pose
\* the calibration a keyframe takes from its frame: none, or the camera a half
\* turn and one unit away from the body
CalibChoices == { NoCalib,
                  [mbIsSet |-> TRUE, mTcb |-> [so3 |-> 1, translation |-> << 1, 0, 0 >>]] }

\* KeyFrame::KeyFrame(Frame&, Map*, KeyFrameDatabase*): the calibration is
\* copied from the frame and the pose is set from the frame's pose
Op_KeyFrame(k, calib) ==
    /\ CanCall
    /\ Call("KeyFrame", k, calib,
            SetPose([ Heap EXCEPT !.mImuCalib[k] = calib ], k, Identity))

\* KeyFrame::GetImuPosition: a member that was never assigned holds any value
Op_GetImuPosition(k) ==
    /\ CanCall
    /\ \E v \in (IF mOwb[k] = Uninit THEN { << 0, 0, 0 >>, << 1, 1, 1 >> } ELSE { mOwb[k] }) :
          Call("GetImuPosition", k, v, Heap)

\* KeyFrame::GetCameraCenter
Op_GetCameraCenter(k) ==
    /\ CanCall
    /\ Call("GetCameraCenter", k, mTwc[k].translation, Heap)

\* keyframes are built from frames with or without a calibration, then posed
\* and read
NextImu ==
    \/ nOps < 0 /\ \E calib \in CalibChoices : Op_KeyFrame(NKF + nOps, calib)
    \/ nOps >= 0 /\ \E k \in KF \ {InitKFid} : \E Tcw \in PoseChoices : Op_SetPose(k, Tcw)
    \/ nOps >= 0 /\ \E k \in KF \ {InitKFid} : Op_GetImuPosition(k)
    \/ nOps >= 0 /\ \E k \in KF \ {InitKFid} : Op_GetCameraCenter(k)

SpecImu == InitSave /\ [][NextImu]_vars

\* ------------------------------------------------------------- pose vertex
\* The vertex holds one ImuCamPose (_estimate); the model has one camera per
\* keyframe, so the per-camera vectors Rcw, tcw, Rcb, tcb, Rbc, tbc, pCamera
\* hold their element 0.  The transpose of a half turn is the half turn.

\* ImuCamPose::ImuCamPose(const KeyFrame*)
ImuCamPose(H, k) ==
    LET Tcb == H.mImuCalib[k].mTcb
        Rwb == GetImuPose(H, k).so3
    IN  [ H EXCEPT !._estimate =
            [ kf      |-> k,
              twb     |-> H.mOwb[k],
              Rwb     |-> Rwb,
              Rcw     |-> H.mRcw[k],
              tcw     |-> H.mTcw[k].translation,
              Rcb     |-> Tcb.so3,
              tcb     |-> Tcb.translation,
              Rbc     |-> Tcb.so3,
              tbc     |-> Inverse(Tcb).translation,
              pCamera |-> H.mpCamera[k],
              its     |-> 0,
              Rwb0    |-> Rwb,
              DR      |-> 0 ] ]

\* ImuCamPose::SetParam
SetParam(H, Rcw, tcw, Rbc, tbc) ==
    LET tcb == VecNeg(Rot(Rbc, tbc))
    IN  [ H EXCEPT !._estimate.Rbc = Rbc,
                   !._estimate.tbc = tbc,
                   !._estimate.Rcw = Rcw,
                   !._estimate.tcw = tcw,
                   !._estimate.Rcb = Rbc,
                   !._estimate.tcb = tcb,
                   !._estimate.Rwb = RotMul(Rcw, Rbc),
                   !._estimate.twb = Rot(Rcw, VecAdd(tcb, VecNeg(tcw))) ]

\* the camera pose of the vertex recomputed from its body pose, the tail of
\* Update and UpdateW
CameraFromBody(e) ==
    LET tbw == VecNeg(Rot(e.Rwb, e.twb))
    IN  [ e EXCEPT !.Rcw = RotMul(e.Rcb, e.Rwb),
                   !.tcw = VecAdd(Rot(e.Rcb, tbw), e.tcb) ]

\* ImuCamPose::Update; ur is the rotation expSO3 makes of the first three
\* components of the update: the value normalizeRotation returns is dropped
Update(H, ur, ut) ==
    LET e == H._estimate
    IN  [ H EXCEPT !._estimate =
            CameraFromBody([ e EXCEPT !.twb = VecAdd(e.twb, Rot(e.Rwb, ut)),
                                      !.Rwb = RotMul(e.Rwb, ur),
                                      !.its = IF e.its + 1 >= 3 THEN 0 ELSE e.its + 1 ]) ]

\* ImuCamPose::UpdateW: the entries of DR that are set to zero are zero in
\* every rotation of the model
UpdateW(H, ur, ut) ==
    LET e  == H._estimate
        DR == RotMul(ur, e.DR)
    IN  [ H EXCEPT !._estimate =
            CameraFromBody([ e EXCEPT !.DR  = DR,
                                      !.Rwb = RotMul(DR, e.Rwb0),
                                      !.twb = VecAdd(e.twb, ut),
                                      !.its = IF e.its + 1 >= 5 THEN 0 ELSE e.its + 1 ]) ]

\* GeometricCamera::setParameter(p, i)
setParameter(H, cam, p, i) == [ H EXCEPT !.mvParameters[cam][i] = p ]

\* VertexPose::read of a stream holding the pose is.pose and the camera
\* parameters is.params.  The local vectors Rcw, tcw, Rbc, tbc are empty when
\* they are indexed (lines 407-429): the writes either fault or land outside
\* the vectors, and the call goes on to store the parameters in the camera.
RECURSIVE readParams(_, _, _, _)
readParams(H, cam, params, i) ==
    IF i > Len(H.mvParameters[cam]) THEN H
    ELSE readParams(setParameter(H, cam, params[i], i), cam, params, i + 1)

read(H, is, ub) ==
    IF ub = "crash" THEN [ H EXCEPT !.status = "crash" ]
    ELSE SetParam(readParams(H, H._estimate.pCamera, is.params, 1),
                  is.pose.so3, is.pose.translation,
                  H._estimate.Rbc, H._estimate.tbc)

\* the increments an optimizer step hands to the vertex
UpdateChoices == { << 0, << 0, 0, 0 >> >>, << 1, << 1, 0, 0 >> >>, << 2, << 0, 0, 1 >> >> }

\* the streams a vertex is read from
StreamChoices == { [pose |-> T, params |-> pr] :
                     T \in PoseChoices, pr \in { CamParams, << fx + 1, fy + 1, cx, cy >> } }

\* keyframes are built with or without a calibration; a vertex is built from
\* a calibrated one and then updated, written and read
NextVertex ==
    \/ nOps < 0 /\ \E calib \in CalibChoices : Op_KeyFrame(NKF + nOps, calib)
    \/ \E k \in KF : /\ nOps >= 0 /\ CanCall /\ mOwb[k] # Uninit /\ _estimate = NoVertex
                     /\ Call("ImuCamPose", k, NULL, ImuCamPose(Heap, k))
    \/ \E u \in UpdateChoices :
          /\ CanCall /\ _estimate # NoVertex
          /\ Call("Update", _estimate.kf, u, Update(Heap, u[1], u[2]))
    \/ \E u \in UpdateChoices :
          /\ CanCall /\ _estimate # NoVertex
          /\ Call("UpdateW", _estimate.kf, u, UpdateW(Heap, u[1], u[2]))
    \/ \E T \in PoseChoices :
          /\ CanCall /\ _estimate # NoVertex
          /\ Call("SetParam", _estimate.kf, T,
                  SetParam(Heap, T.so3, T.translation, _estimate.Rbc, _estimate.tbc))
    \/ \E is \in StreamChoices : \E ub \in UBOutcomes :
          /\ CanCall /\ _estimate # NoVertex
          /\ Call("read", _estimate.kf, is, read(Heap, is, ub))
    \/ /\ CanCall /\ _estimate # NoVertex
       /\ Call("write", _estimate.kf,
               [pose |-> [so3 |-> _estimate.Rcw, translation |-> _estimate.tcw],
                params |-> mvParameters[_estimate.pCamera]], Heap)

SpecVertex == InitSave /\ [][NextVertex]_vars

\* ---------------------------------------------------------- rotation vectors
\* A double is kept to eight significant decimal digits: m * 10^e with
\* 10^7 <= |m| < 10^8, or zero.  The exponent 1000 marks the values that are
\* not finite: an infinity (m its sign) or a NaN (m = 0).
RECURSIVE Fp(_, _)
Fp(m, e) ==
    IF m = 0 THEN [m |-> 0, e |-> 0]
    ELSE IF m >= 100000000 THEN Fp((m + 5) \div 10, e + 1)
    ELSE IF m <= 0 - 100000000 THEN Fp(0 - ((5 - m) \div 10), e + 1)
    ELSE IF m < 10000000 /\ m > 0 - 10000000 THEN Fp(m * 10, e - 1)
    ELSE [m |-> m, e |-> e]

FpInf(s) == [m |-> s, e |-> 1000]
FpNaN == [m |-> 0, e |-> 1000]
IsFinite(a) == a.e # 1000
FpNeg(a) == [a EXCEPT !.m = 0 - a.m]
FpAbs(a) == [a EXCEPT !.m = Abs(a.m)]

\* a * b, rounded
FpMul(a, b) ==
    IF ~IsFinite(a) \/ ~IsFinite(b)
    THEN IF a.m = 0 \/ b.m = 0 THEN FpNaN ELSE FpInf(Sgn(a.m) * Sgn(b.m))
    ELSE IF a.m = 0 \/ b.m = 0 THEN Fp(0, 0)
    ELSE LET x  == Abs(a.m)
             y  == Abs(b.m)
             x1 == x \div 10000
             x0 == x % 10000
             y1 == y \div 10000
             y0 == y % 10000
             q  == x1 * y1 * 10 + (x1 * y0 + x0 * y1 + (x0 * y0) \div 10000) \div 1000
         IN  Fp(Sgn(a.m) * Sgn(b.m) * q, a.e + b.e + 7)

\* the digits of r / y, one at a time
RECURSIVE LongDiv(_, _, _, _)
LongDiv(r, y, n, acc) ==
    IF n = 0 THEN acc
    ELSE LongDiv((r * 10) % y, y, n - 1, acc * 10 + (r * 10) \div y)

\* a / b, rounded; a division by zero gives an infinity, 0 / 0 a NaN
FpDiv(a, b) ==
    IF ~IsFinite(a) \/ ~IsFinite(b)
    THEN IF (a.m = 0 /\ ~IsFinite(a)) \/ (b.m = 0 /\ ~IsFinite(b)) \/ a.e = b.e
         THEN FpNaN
         ELSE IF IsFinite(a) THEN Fp(0, 0)
         ELSE FpInf(Sgn(a.m) * (IF b.m < 0 THEN 0 - 1 ELSE 1))
    ELSE IF b.m = 0 THEN (IF a.m = 0 THEN FpNaN ELSE FpInf(Sgn(a.m)))
    ELSE IF a.m = 0 THEN Fp(0, 0)
    ELSE LET x == Abs(a.m)
             y == Abs(b.m)
         IN  Fp(Sgn(a.m) * Sgn(b.m) * LongDiv(x % y, y, 8, x \div y), a.e - b.e - 8)

\* a + b, rounded
FpAdd(a, b) ==
    IF ~IsFinite(a) \/ ~IsFinite(b)
    THEN IF (a.m = 0 /\ ~IsFinite(a)) \/ (b.m = 0 /\ ~IsFinite(b))
            \/ (~IsFinite(a) /\ ~IsFinite(b) /\ a.m # b.m)
         THEN FpNaN
         ELSE IF IsFinite(a) THEN b ELSE a
    ELSE IF a.m = 0 THEN b
    ELSE IF b.m = 0 THEN a
    ELSE LET hi == IF a.e >= b.e THEN a ELSE b
             lo == IF a.e >= b.e THEN b ELSE a
             d  == hi.e - lo.e
             p  == 10 ^ (d - 1)
             sh == IF d = 0 THEN lo.m * 10
                   ELSE IF lo.m >= 0 THEN (lo.m + p \div 2) \div p
                   ELSE 0 - ((p \div 2 - lo.m) \div p)
         IN  IF d > 9 THEN hi ELSE Fp(hi.m * 10 + sh, hi.e - 1)

FpSub(a, b) == FpAdd(a, FpNeg(b))

\* a < b; false when one of them is a NaN
FpLess(a, b) == FpSub(a, b).m < 0

\* std::sqrt, std::sin, std::cos and std::acos at the angles of the model,
\* rounded to eight digits; acos(1) = 0 and acos(-1) = pi come first, so that
\* they are what the exact arguments 1 and -1 give
Trig ==
    << [x |-> Fp(0, 0),          sin |-> Fp(0, 0),          cos |-> Fp(10000000, -7)],
       [x |-> Fp(31415927, -7),  sin |-> Fp(12246468, -23), cos |-> Fp(-10000000, -7)],
       [x |-> Fp(50000000, -13), sin |-> Fp(50000000, -13), cos |-> Fp(10000000, -7)],
       [x |-> Fp(10000000, -10), sin |-> Fp(99999983, -11), cos |-> Fp(99999950, -8)],
       [x |-> Fp(50000000, -8),  sin |-> Fp(47942554, -8),  cos |-> Fp(87758256, -8)],
       [x |-> Fp(15707960, -7),  sin |-> Fp(10000000, -7),  cos |-> Fp(32679490, -14)],
       [x |-> Fp(30000000, -7),  sin |-> Fp(14112001, -8),  cos |-> Fp(-98999250, -8)],
       [x |-> Fp(31400000, -7),  sin |-> Fp(15926529, -10), cos |-> Fp(-99999873, -8)],
       [x |-> Fp(31415880, -7),  sin |-> Fp(46535898, -13), cos |-> Fp(-10000000, -7)] >>

\* the first row of the table whose value key(row) is nearest to v
Nearest(key(_), v) ==
    CHOOSE i \in DOMAIN Trig :
        \A j \in DOMAIN Trig :
            LET di == FpAbs(FpSub(key(Trig[i]), v))
                dj == FpAbs(FpSub(key(Trig[j]), v))
            IN  ~FpLess(dj, di) /\ (dj = di => i <= j)

Sqrt(v) == LET sq(r) == FpMul(r.x, r.x) IN Trig[Nearest(sq, v)].x
Sin(v)  == LET arg(r) == r.x IN Trig[Nearest(arg, v)].sin
Cos(v)  == LET arg(r) == r.x IN Trig[Nearest(arg, v)].cos
Acos(v) == LET val(r) == r.cos IN Trig[Nearest(val, v)].x

\* 3x3 matrices of doubles
Mat(f(_, _)) == [i \in 1 .. 3 |-> [j \in 1 .. 3 |-> f(i, j)]]
MatI == LET f(i, j) == IF i = j THEN Fp(1, 0) ELSE Fp(0, 0) IN Mat(f)
MatAdd(A, B) == LET f(i, j) == FpAdd(A[i][j], B[i][j]) IN Mat(f)
MatScale(A, s) == LET f(i, j) == FpMul(A[i][j], s) IN Mat(f)
MatOver(A, s) == LET f(i, j) == FpDiv(A[i][j], s) IN Mat(f)
MatMul(A, B) ==
    LET f(i, j) == FpAdd(FpAdd(FpMul(A[i][1], B[1][j]), FpMul(A[i][2], B[2][j])),
                         FpMul(A[i][3], B[3][j]))
    IN  Mat(f)
Transpose(A) == LET f(i, j) == A[j][i] IN Mat(f)

\* skew(w)
skew(w) ==
    << << Fp(0, 0), FpNeg(w[3]), w[2] >>,
       << w[3], Fp(0, 0), FpNeg(w[1]) >>,
       << FpNeg(w[2]), w[1], Fp(0, 0) >> >>

\* normalizeRotation: U * V^T of the singular value decomposition, the
\* orthogonal matrix nearest to R; for an R that is orthogonal up to rounding
\* it is R * (3 I - R^T R) / 2 up to the square of the rounding error
normalizeRotation(R) ==
    MatScale(MatMul(R, MatAdd(MatScale(MatI, Fp(3, 0)),
                              MatScale(MatMul(Transpose(R), R), Fp(-1, 0)))),
             Fp(5, -1))

\* the threshold 1e-5 of expSO3 and logSO3
Threshold == Fp(1, -5)

\* expSO3
expSO3(w) ==
    LET theta_squared == FpAdd(FpAdd(FpMul(w[1], w[1]), FpMul(w[2], w[2])), FpMul(w[3], w[3]))
        theta         == Sqrt(theta_squared)
        W             == skew(w)
    IN  IF FpLess(theta, Threshold)
        THEN normalizeRotation(
                 MatAdd(MatAdd(MatI, W), MatMul(MatScale(W, Fp(5, -1)), W)))
        ELSE normalizeRotation(
                 MatAdd(MatAdd(MatI, MatOver(MatScale(W, Sin(theta)), theta)),
                        MatOver(MatScale(MatMul(W, W), FpSub(Fp(1, 0), Cos(theta))),
                                theta_squared)))

\* the vector of the antisymmetric part of R, the w of logSO3
Vee(R) ==
    << FpDiv(FpSub(R[3][2], R[2][3]), Fp(2, 0)),
       FpDiv(FpSub(R[1][3], R[3][1]), Fp(2, 0)),
       FpDiv(FpSub(R[2][1], R[1][2]), Fp(2, 0)) >>

\* logSO3 without the test of the sine
logSO3_NoSineGuard(R) ==
    LET w         == Vee(R)
        cos_theta == FpMul(FpSub(FpAdd(FpAdd(R[1][1], R[2][2]), R[3][3]), Fp(1, 0)), Fp(5, -1))
        theta     == Acos(cos_theta)
        sin_theta == Sin(theta)
    IN  IF FpLess(Fp(1, 0), FpAbs(cos_theta)) THEN w
        ELSE [i \in 1 .. 3 |-> FpDiv(FpMul(theta, w[i]), sin_theta)]

\* logSO3
logSO3(R) ==
    LET w         == Vee(R)
        cos_theta == FpMul(FpSub(FpAdd(FpAdd(R[1][1], R[2][2]), R[3][3]), Fp(1, 0)), Fp(5, -1))
        theta     == Acos(cos_theta)
        sin_theta == Sin(theta)
    IN  IF FpLess(Fp(1, 0), FpAbs(cos_theta)) THEN w
        ELSE IF FpLess(FpAbs(sin_theta), Threshold) THEN w
        ELSE [i \in 1 .. 3 |-> FpDiv(FpMul(theta, w[i]), sin_theta)]

\* the rotation vectors handed to expSO3: every angle of the table below pi
\* about each axis
RotationVectors ==
    { [i \in 1 .. 3 |-> IF i = a THEN Trig[n].x ELSE Fp(0, 0)] :
        a \in 1 .. 3, n \in (DOMAIN Trig) \ {2} }

\* a planar matrix [[d, -o, 0], [o, d, 0], [0, 0, 1]]
Planar(d, o) ==
    << << d, FpNeg(o), Fp(0, 0) >>, << o, d, Fp(0, 0) >>, << Fp(0, 0), Fp(0, 0), Fp(1, 0) >> >>

\* matrices handed to logSO3 that are no rotations: a rotation that drifted
\* outwards (trace above 3), one with the trace below -1, and one whose
\* antisymmetric part is twice that of the rotation by 0.5
MatrixChoices ==
    { Planar(Fp(11, -1), Fp(2, -1)),
      Planar(Fp(-11, -1), Fp(2, -1)),
      Planar(Trig[5].cos, FpMul(Fp(2, 0), Trig[5].sin)) }

\* rotation vectors are mapped to matrices and back, and matrices that are
\* no rotations are handed to logSO3
NextSO3 ==
    \/ \E w \in RotationVectors :
          /\ CanCall
          /\ Call("expSO3", NULL, [w |-> w, R |-> expSO3(w)], Heap)
    \/ /\ CanCall /\ ret.op = "expSO3"
       /\ Call("logSO3", NULL,
               [from |-> "expSO3", w |-> ret.arg.w, R |-> ret.arg.R,
                out |-> logSO3(ret.arg.R)], Heap)
    \/ \E R \in MatrixChoices :
          /\ CanCall
          /\ Call("logSO3", NULL,
                  [from |-> "caller", w |-> Vee(R), R |-> R, out |-> logSO3(R)], Heap)

SpecSO3 == Init /\ [][NextSO3]_vars

\* ------------------------------------------- drift of the pose vertex
\* The rotation members of an ImuCamPose as matrices of doubles, for one
\* camera that coincides with the body (Rcb the identity, tcb zero).
MatVec(A, v) ==
    [i \in 1 .. 3 |-> FpAdd(FpAdd(FpMul(A[i][1], v[1]), FpMul(A[i][2], v[2])),
                            FpMul(A[i][3], v[3]))]
VecPlus(v, w) == [i \in 1 .. 3 |-> FpAdd(v[i], w[i])]

\* lines 346-351 of Update, 386-391 of UpdateW
CameraFromBodyD(e) ==
    LET Rbw == Transpose(e.Rwb)
    IN  [ e EXCEPT !.Rcw = Rbw,
                   !.tcw = MatVec(MatScale(Rbw, Fp(-1, 0)), e.twb) ]

\* an ImuCamPose built at the origin: its(0), DR the identity, Rwb0 = Rwb
ImuCamPoseD ==
    CameraFromBodyD([ its |-> 0, twb |-> << Fp(0, 0), Fp(0, 0), Fp(0, 0) >>,
                      Rwb |-> MatI, Rwb0 |-> MatI, DR |-> MatI,
                      Rcw |-> MatI, tcw |-> << Fp(0, 0), Fp(0, 0), Fp(0, 0) >> ])

\* ImuCamPose::Update with a non-null update: normalizeRotation(Rwb) is
\* called for its value, which is not assigned to anything
UpdateD(e, ur, ut) ==
    LET its == e.its + 1
    IN  CameraFromBodyD([ e EXCEPT !.twb = VecPlus(e.twb, MatVec(e.Rwb, ut)),
                                   !.Rwb = MatMul(e.Rwb, expSO3(ur)),
                                   !.its = IF its >= 3 THEN 0 ELSE its ])

\* ImuCamPose::UpdateW with a non-null update: the four entries of DR are
\* set to zero in place, the value of normalizeRotation(DR) is not assigned
UpdateWD(e, ur, ut) ==
    LET its == e.its + 1
        DR  == MatMul(expSO3(ur), e.DR)
    IN  CameraFromBodyD([ e EXCEPT
            !.DR  = IF its >= 5
                    THEN [ DR EXCEPT ![1][3] = Fp(0, 0), ![2][3] = Fp(0, 0),
                                     ![3][1] = Fp(0, 0), ![3][2] = Fp(0, 0) ]
                    ELSE DR,
            !.Rwb = MatMul(DR, e.Rwb0),
            !.twb = VecPlus(e.twb, ut),
            !.its = IF its >= 5 THEN 0 ELSE its ])

\* the updates of the optimiser: a rotation by 0.5 about z or about x and one
\* unit along x
DriftChoices ==
    { << [i \in 1 .. 3 |-> IF i = a THEN Trig[5].x ELSE Fp(0, 0)],
         << Fp(1, 0), Fp(0, 0), Fp(0, 0) >> >> : a \in {1, 3} }

\* one round of the five calls of UpdateW and the call after it
NUpdates == 5 + 1
InitDrift == Constructed /\ nOps = MaxOps - (NUpdates + 1)

\* the updates made since the vertex was built
UpdatesDone == nOps - MaxOps + NUpdates

\* a vertex is built and then updated by Update only (the six degrees of
\* freedom vertex) or by UpdateW only (the four degrees of freedom vertex)
NextDrift ==
    \/ /\ CanCall /\ _estimate = NoVertex
       /\ Call("ImuCamPose", NULL, NULL, [Heap EXCEPT !._estimate = ImuCamPoseD])
    \/ \E u \in DriftChoices :
          /\ CanCall /\ ret.op \in {"ImuCamPose", "Update"}
          /\ Call("Update", NULL, u, [Heap EXCEPT !._estimate = UpdateD(@, u[1], u[2])])
    \/ \E u \in DriftChoices :
          /\ CanCall /\ ret.op \in {"ImuCamPose", "UpdateW"}
          /\ Call("UpdateW", NULL, u, [Heap EXCEPT !._estimate = UpdateWD(@, u[1], u[2])])

SpecDrift == InitDrift /\ [][NextDrift]_vars

\* ------------------------------------------------------- localization mode
\* System::ActivateLocalizationMode, System::DeactivateLocalizationMode: the
\* flag is set under mMutexMode
ActivateLocalizationMode(s) == [ s EXCEPT !.mbActivateLocalizationMode = TRUE ]
DeactivateLocalizationMode(s) == [ s EXCEPT !.mbDeactivateLocalizationMode = TRUE ]

\* LocalMapping::RequestStop, LocalMapping::Stop (run by the local mapping
\* thread once a stop is requested), LocalMapping::isStopped,
\* LocalMapping::Release and Tracking::InformOnlyTracking
RequestStop(s) == [ s EXCEPT !.mbStopRequested = TRUE, !.calls = Append(@, "RequestStop") ]
Stop(s) == [ s EXCEPT !.mbStopped = TRUE ]
isStopped(s) == s.mbStopped
LocalMapping_Release(s) ==
    [ s EXCEPT !.mbStopped = FALSE, !.mbStopRequested = FALSE, !.calls = Append(@, "Release") ]
InformOnlyTracking(s, flag) ==
    [ s EXCEPT !.mbOnlyTracking = flag,
               !.calls = Append(@, IF flag THEN "InformOnlyTracking(true)"
                                           ELSE "InformOnlyTracking(false)") ]

\* TrackStereo that informs the tracker without waiting for the local mapper
TrackStereo_NoWait(s) ==
    CASE s.pc = "idle" ->
             [ s EXCEPT !.mMutexMode = 1, !.pc = "check", !.calls = << >>,
                        !.entry = << s.mbActivateLocalizationMode,
                                     s.mbDeactivateLocalizationMode >> ]
      [] s.pc = "check" ->
             IF s.mbActivateLocalizationMode
             THEN [ RequestStop(s) EXCEPT !.pc = "wait" ]
             ELSE [ s EXCEPT !.pc = "deactivate" ]
      [] s.pc = "wait" ->
             [ InformOnlyTracking(s, TRUE) EXCEPT !.mbActivateLocalizationMode = FALSE,
                                                 !.pc = "deactivate" ]
      [] s.pc = "deactivate" ->
             LET t == IF s.mbDeactivateLocalizationMode
                      THEN [ LocalMapping_Release(InformOnlyTracking(s, FALSE))
                                 EXCEPT !.mbDeactivateLocalizationMode = FALSE ]
                      ELSE s
             IN  [ t EXCEPT !.mMutexMode = 0, !.pc = "idle" ]

\* System::TrackStereo, lines 275-297, one step of the block "Check mode
\* change" (TrackRGBD, lines 349-371, and TrackMonocular, lines 424-446, hold
\* the same block; the rest of Track* reads and writes none of these members):
\* the lock, the test of the activation request, the loop on isStopped(), the
\* test of the deactivation request with the unlock
TrackStereo(s) ==
    CASE s.pc = "idle" ->
             [ s EXCEPT !.mMutexMode = 1, !.pc = "check", !.calls = << >>,
                        !.entry = << s.mbActivateLocalizationMode,
                                     s.mbDeactivateLocalizationMode >> ]
      [] s.pc = "check" ->
             IF s.mbActivateLocalizationMode
             THEN [ RequestStop(s) EXCEPT !.pc = "wait" ]
             ELSE [ s EXCEPT !.pc = "deactivate" ]
      [] s.pc = "wait" ->
             IF isStopped(s)
             THEN [ InformOnlyTracking(s, TRUE) EXCEPT !.mbActivateLocalizationMode = FALSE,
                                                      !.pc = "deactivate" ]
             ELSE s
      [] s.pc = "deactivate" ->
             LET t == IF s.mbDeactivateLocalizationMode
                      THEN [ LocalMapping_Release(InformOnlyTracking(s, FALSE))
                                 EXCEPT !.mbDeactivateLocalizationMode = FALSE ]
                      ELSE s
             IN  [ t EXCEPT !.mMutexMode = 0, !.pc = "idle" ]

\* two requests and the steps of two Track* calls
InitMode == Constructed /\ nOps = MaxOps - (2 + 2 * 5)

\* the viewer thread requests mode changes, the caller's thread runs Track*,
\* the local mapping thread stops when asked to; usleep(1000) in the loop on
\* isStopped() changes nothing and is left to stuttering
NextMode ==
    \/ /\ CanCall /\ System.mMutexMode = 0
       /\ Call("ActivateLocalizationMode", NULL, NULL,
               [Heap EXCEPT !.System = ActivateLocalizationMode(@)])
    \/ /\ CanCall /\ System.mMutexMode = 0
       /\ Call("DeactivateLocalizationMode", NULL, NULL,
               [Heap EXCEPT !.System = DeactivateLocalizationMode(@)])
    \/ /\ CanCall /\ TrackStereo(System) # System
       /\ Call("TrackStereo", NULL, System.pc, [Heap EXCEPT !.System = TrackStereo(@)])
    \/ /\ CanCall /\ System.mbStopRequested /\ ~System.mbStopped
       /\ Call("Stop", NULL, NULL, [Heap EXCEPT !.System = Stop(@)])

SpecMode == InitMode /\ [][NextMode]_vars

\* ------------------------------------------------------------------ threads
\* A call running in a thread is the sequence of its steps still to take:
\*   acq    std::unique_lock on a mutex of keyframe kf (blocks while held)
\*   rel    the lock goes out of scope
\*   visit  a call into keyframe kf that takes the mutex, does e and gives
\*          the mutex back (isBad, AddChild, EraseChild, GetPoseInverse, ...)
\*   eff    a write e of this thread
\*   read   a read of the pose member e into a local
\*   expand a branch or loop on what the thread reads at this point: e names
\*          the place in the code, the steps that follow replace it
\* A step is the tuple of its kind, the mutex, the keyframe, e and the
\* argument of e.
Acq(m, kf) == << "acq", m, kf, "none", NULL >>
Rel(m, kf) == << "rel", m, kf, "none", NULL >>
Visit(m, kf, e, a) == << "visit", m, kf, e, a >>
Eff(e, kf, a) == << "eff", "none", kf, e, a >>
Read(e, kf) == << "read", "none", kf, e, NULL >>
Expand(e, kf, a) == << "expand", "none", kf, e, a >>

\* one visit per keyframe of a sequence
Visits(m, todo, e) == [i \in 1 .. Len(todo) |-> Visit(m, todo[i], e, NULL)]

\* the writes of the calls, one per assignment of the code
ApplyEff(H, h) ==
    LET k == h[3]
        a == h[5]
    IN  CASE h[4] = "none"             -> H
          \* SetPose, lines 118-121
          [] h[4] = "mTcw.so3"         -> [ H EXCEPT !.mTcw[k].so3 = a.so3 ]
          [] h[4] = "mTcw.translation" -> [ H EXCEPT !.mTcw[k].translation = a.translation ]
          [] h[4] = "mRcw"             -> [ H EXCEPT !.mRcw[k] = H.mTcw[k].so3 ]
          [] h[4] = "mTwc"             -> [ H EXCEPT !.mTwc[k] = Inverse(H.mTcw[k]) ]
          [] h[4] = "mRwc"             -> [ H EXCEPT !.mRwc[k] = H.mTwc[k].so3 ]
          \* SetPose, line 125
          [] h[4] = "mOwb"             ->
                 [ H EXCEPT !.mOwb[k] = GetImuPose(H, k).translation ]
          \* AddConnection, lines 198-201; EraseConnection, line 699
          [] h[4] = "store"            ->
                 [ H EXCEPT !.mConnectedKeyFrameWeights[k] = MapPut(@, a[1], a[2]) ]
          [] h[4] = "erase"            ->
                 [ H EXCEPT !.mConnectedKeyFrameWeights[k] = MapErase(@, a) ]
          \* UpdateBestCovisibles, lines 213-230
          [] h[4] = "sort"             -> UpdateBestCovisibles(H, k)
          \* ChangeParent, line 502; UpdateConnections, line 473
          [] h[4] = "mpParent"         -> [ H EXCEPT !.mpParent[k] = a ]
          [] h[4] = "AddChild"         -> AddChild(H, k, a)
          [] h[4] = "EraseChild"       -> EraseChild(H, k, a)
          \* SetBadFlag, lines 588, 598-604, 610-611, 659, 678, 682-683
          [] h[4] = "mbToBeErased"     -> [ H EXCEPT !.mbToBeErased[k] = TRUE ]
          [] h[4] = "EraseObservations" -> EraseObservations(H, 1, k)
          [] h[4] = "clear"            ->
                 [ H EXCEPT !.mConnectedKeyFrameWeights[k]    = EmptyMap,
                            !.mvpOrderedConnectedKeyFrames[k] = << >> ]
          [] h[4] = "mspChildrens.erase" -> [ H EXCEPT !.mspChildrens[k] = @ \ {a} ]
          [] h[4] = "mbBad"            -> [ H EXCEPT !.mbBad[k] = TRUE ]
          [] h[4] = "EraseKeyFrame"    -> EraseKeyFrame(H, k)
          \* SetErase, lines 566-569
          [] h[4] = "mbNotErase"       ->
                 IF H.mspLoopEdges[k] = {} THEN [ H EXCEPT !.mbNotErase[k] = FALSE ] ELSE H
          \* UpdateConnections, lines 466-468, 475
          [] h[4] = "assign"           ->
                 [ H EXCEPT
                     !.mConnectedKeyFrameWeights[k]    = a[1],
                     !.mvpOrderedConnectedKeyFrames[k] = [i \in 1 .. Len(a[2]) |-> a[2][i][2]],
                     !.mvOrderedWeights[k]             = [i \in 1 .. Len(a[2]) |-> a[2][i][1]] ]
          [] h[4] = "mbFirstConnection" -> [ H EXCEPT !.mbFirstConnection[k] = FALSE ]
          \* SetNotErase, AddLoopEdge, AddMergeEdge, lines 533-534, 546-547, 559
          [] h[4] = "SetNotErase"      -> SetNotErase(H, k)
          [] h[4] = "AddLoopEdge"      -> AddLoopEdge(H, k, a)
          [] h[4] = "AddMergeEdge"     -> AddMergeEdge(H, k, a)
          \* KeyFrame(Frame&, Map*, KeyFrameDatabase*), line 69
          [] h[4] = "nNextId"          -> [ H EXCEPT !.nNextId = a ]
          [] h[4] = "mnId"             -> [ H EXCEPT !.mnIds[k] = a ]
          \* pKF->AddChild(this) through a null pKF
          [] h[4] = "nullDeref"        -> H

\* UpdateBestCovisibles after the lock of line 211: isBad() on every
\* neighbour, then the sorted lists, then the lock is given back
UpdateBestCovisiblesSteps(H, k) ==
    LET srt == SortDesc({ << H.mConnectedKeyFrameWeights[k][n], n >> :
                              n \in DOMAIN H.mConnectedKeyFrameWeights[k] })
        asc == [i \in 1 .. Len(srt) |-> srt[Len(srt) + 1 - i][2]]
    IN  Visits("Connections", asc, "none")
            \o << Eff("sort", k, NULL), Rel("Connections", k) >>

\* KeyFrame::UpdateBestCovisibles
UpdateBestCovisiblesProg(k) ==
    << Acq("Connections", k), Expand("UpdateBestCovisibles", k, NULL) >>

\* KeyFrame::AddConnection, KeyFrame::EraseConnection
AddConnectionProg(k, pKF, weight) ==
    << Acq("Connections", k), Expand("AddConnection", k, << pKF, weight >>) >>
EraseConnectionProg(k, pKF) ==
    << Acq("Connections", k), Expand("EraseConnection", k, pKF) >>

\* KeyFrame::ChangeParent: the throw unwinds the lock
ChangeParentProg(k, pKF) ==
    IF pKF = k
    THEN << Acq("Connections", k), Rel("Connections", k) >>
    ELSE IF pKF = NULL
    THEN << Acq("Connections", k), Eff("mpParent", k, NULL), Eff("nullDeref", k, NULL),
            Rel("Connections", k) >>
    ELSE << Acq("Connections", k), Eff("mpParent", k, pKF),
            Visit("Connections", pKF, "AddChild", k), Rel("Connections", k) >>

\* KeyFrame::SetBadFlag, KeyFrame::SetErase, KeyFrame::UpdateConnections
SetBadFlagProg(k) == << Acq("Connections", k), Expand("SetBadFlag:guard", k, NULL) >>
SetEraseProg(k) ==
    << Acq("Connections", k), Eff("mbNotErase", k, NULL), Rel("Connections", k),
       Expand("SetErase:deferred", k, NULL) >>
UpdateConnectionsProg(k) ==
    << Visit("Features", k, "none", NULL), Expand("UpdateConnections:observers", k, NULL) >>

\* every prog of a sequence of progs, in order
RECURSIVE Flatten(_)
Flatten(progs) == IF progs = << >> THEN << >> ELSE Head(progs) \o Flatten(Tail(progs))

\* SetBadFlag, lines 666-672: ChangeParent(mpParent) on the children left; a
\* child that is its own new parent makes ChangeParent throw, which unwinds
\* the locks of SetBadFlag as well
RECURSIVE ForceSteps(_, _, _, _)
ForceSteps(k, todo, par, tail) ==
    IF todo = << >> THEN tail
    ELSE IF Head(todo) = par
    THEN ChangeParentProg(Head(todo), par)
             \o << Rel("Features", k), Rel("Connections", k) >>
    ELSE ChangeParentProg(Head(todo), par) \o ForceSteps(k, Tail(todo), par, tail)

\* the steps that replace an expand step
Expansion(H, h) ==
    LET k == h[3]
        a == h[5]
        m == H.mConnectedKeyFrameWeights[k]
    IN  CASE h[4] = "UpdateBestCovisibles" -> UpdateBestCovisiblesSteps(H, k)
          \* lines 198-206
          [] h[4] = "AddConnection" ->
                 IF a[1] \in DOMAIN m /\ m[a[1]] = a[2]
                 THEN << Rel("Connections", k) >>
                 ELSE << Eff("store", k, a), Rel("Connections", k) >>
                          \o UpdateBestCovisiblesProg(k)
          \* lines 697-705
          [] h[4] = "EraseConnection" ->
                 IF a \in DOMAIN m
                 THEN << Eff("erase", k, a), Rel("Connections", k) >>
                          \o UpdateBestCovisiblesProg(k)
                 ELSE << Rel("Connections", k) >>
          \* lines 582-591
          [] h[4] = "SetBadFlag:guard" ->
                 IF k = InitKFid THEN << Rel("Connections", k) >>
                 ELSE IF H.mbNotErase[k]
                 THEN << Eff("mbToBeErased", k, NULL), Rel("Connections", k) >>
                 ELSE << Rel("Connections", k), Expand("SetBadFlag:unlink", k, NULL) >>
          \* lines 593-608: the loop walks the live map of k with no mutex
          \* held, a is the key the iterator is at (NULL before begin()); a
          \* key erased under the iterator leaves it dangling
          [] h[4] = "SetBadFlag:unlink" ->
                 LET nb == InAddrOrder({ n \in DOMAIN m : a = NULL \/ addr[n] > addr[a] })
                 IN  IF a # NULL /\ a \notin DOMAIN m /\ h[2] # "dangling"
                     THEN << Eff("nullDeref", k, NULL),
                             << "expand", "dangling", k, "SetBadFlag:unlink", a >> >>
                     ELSE IF nb # << >>
                     THEN EraseConnectionProg(nb[1], k)
                              \o << Expand("SetBadFlag:unlink", k, nb[1]) >>
                     ELSE << Eff("EraseObservations", k, NULL),
                             Acq("Connections", k), Acq("Features", k),
                             Expand("SetBadFlag:locked", k, NULL) >>
          \* lines 610-616
          [] h[4] = "SetBadFlag:locked" ->
                 << Eff("clear", k, NULL),
                    Expand("SetBadFlag:scan", k,
                           IF H.mpParent[k] # NULL THEN {H.mpParent[k]} ELSE {}) >>
          \* lines 620-653: the calls into a child (isBad,
          \* GetVectorCovisibleKeyFrames, GetWeight) take the same mutex with
          \* no write of this thread in between: one visit stands for them
          [] h[4] = "SetBadFlag:scan" ->
                 IF H.mspChildrens[k] = {}
                 THEN << Expand("SetBadFlag:force", k, NULL) >>
                 ELSE Visits("Connections", InAddrOrder(H.mspChildrens[k]), "none")
                          \o << Expand("SetBadFlag:decide", k, a) >>
          \* lines 655-662
          [] h[4] = "SetBadFlag:decide" ->
                 IF ReparentPairs(H, k, a) = {}
                 THEN << Expand("SetBadFlag:force", k, NULL) >>
                 ELSE LET best == BestPair(H, k, a)
                          pC   == best[1]
                          pP   == H.mvpOrderedConnectedKeyFrames[pC][best[2]]
                      IN  ChangeParentProg(pC, pP)
                              \o << Eff("mspChildrens.erase", k, pC),
                                    Expand("SetBadFlag:scan", k, a \cup {pC}) >>
          \* lines 666-683
          [] h[4] = "SetBadFlag:force" ->
                 LET par == H.mpParent[k]
                 IN  ForceSteps(k, InAddrOrder(H.mspChildrens[k]), par,
                         (IF par # NULL
                          THEN << Visit("Connections", par, "EraseChild", k),
                                  Read("mTcw.so3", k), Read("mTcw.translation", k),
                                  Visit("Pose", par, "none", NULL) >>
                          ELSE << >>)
                         \o << Eff("mbBad", k, NULL),
                               Rel("Features", k), Rel("Connections", k),
                               Eff("EraseKeyFrame", k, NULL) >>)
          \* lines 572-575
          [] h[4] = "SetErase:deferred" ->
                 IF H.mbToBeErased[k] THEN SetBadFlagProg(k) ELSE << >>
          \* lines 396-422: isBad() on every observer of a landmark of k
          [] h[4] = "UpdateConnections:observers" ->
                 LET obs == UNION { GetObservations(H, H.mvpMapPoints[k][i]) :
                                       i \in { j \in DOMAIN H.mvpMapPoints[k] :
                                                  /\ H.mvpMapPoints[k][j] # NULL
                                                  /\ ~isBadMP(H, H.mvpMapPoints[k][j]) } }
                 IN  Visits("Connections", InAddrOrder(obs \ {k}), "none")
                         \o << Expand("UpdateConnections:tally", k, NULL) >>
          \* lines 419-464
          [] h[4] = "UpdateConnections:tally" ->
                 LET cnt    == KFcounter(H, k)
                     nmax   == CHOOSE v \in { cnt[o] : o \in DOMAIN cnt } :
                                   \A o \in DOMAIN cnt : cnt[o] <= v
                     pKFmax == CHOOSE o \in DOMAIN cnt :
                                   /\ cnt[o] = nmax
                                   /\ \A q \in DOMAIN cnt :
                                         cnt[q] = nmax /\ q # o => addr[o] < addr[q]
                     over   == { o \in DOMAIN cnt : cnt[o] >= th }
                     promo  == IF over = {} THEN {pKFmax} ELSE over
                     todo   == InAddrOrder(promo)
                     srt    == SortDesc({ << cnt[o], o >> : o \in promo })
                 IN  IF DOMAIN cnt = {} THEN << >>
                     ELSE Flatten([i \in 1 .. Len(todo) |->
                                      AddConnectionProg(todo[i], k, cnt[todo[i]])])
                              \o << Acq("Connections", k),
                                    Eff("assign", k, << cnt, srt >>),
                                    Expand("UpdateConnections:first", k, NULL) >>
          \* lines 471-478
          [] h[4] = "UpdateConnections:first" ->
                 IF H.mbFirstConnection[k] /\ k # InitKFid
                 THEN << Eff("mpParent", k, H.mvpOrderedConnectedKeyFrames[k][1]),
                         Visit("Connections", H.mvpOrderedConnectedKeyFrames[k][1],
                               "AddChild", k),
                         Eff("mbFirstConnection", k, NULL), Rel("Connections", k) >>
                 ELSE << Rel("Connections", k) >>
          \* line 69, mnId=nNextId++: the counter is read here, without a lock
          [] h[4] = "nNextId++" ->
                 << Eff("nNextId", k, H.nNextId + 1), Eff("mnId", k, H.nNextId) >>

\* the thread holding the mutex m of keyframe k, 0 when it is free
Owner(m, k) ==
    CASE m = "Connections" -> mMutexConnections[k]
      [] m = "Features"    -> mMutexFeatures[k]
      [] m = "Pose"        -> mMutexPose[k]

SetOwner(m, k, t) ==
    /\ mMutexConnections' = IF m = "Connections"
                            THEN [mMutexConnections EXCEPT ![k] = t] ELSE mMutexConnections
    /\ mMutexFeatures' = IF m = "Features"
                         THEN [mMutexFeatures EXCEPT ![k] = t] ELSE mMutexFeatures
    /\ mMutexPose' = IF m = "Pose" THEN [mMutexPose EXCEPT ![k] = t] ELSE mMutexPose

\* thread t is in a call and its next step is of kind i
AtStep(t, i) ==
    /\ ret.status # "crash"
    /\ thread[t].prog # << >>
    /\ Head(thread[t].prog)[1] = i


Acquire(t) ==
    LET h == Head(thread[t].prog)
    IN  /\ AtStep(t, "acq")
        /\ Owner(h[2], h[3]) = 0
        /\ SetOwner(h[2], h[3], t)
        /\ thread' = [thread EXCEPT ![t].prog = Tail(thread[t].prog)]
        /\ Commit(Heap)
        /\ UNCHANGED << addr, snap, ucAssigned, ret, nOps >>

Release(t) ==
    LET h == Head(thread[t].prog)
    IN  /\ AtStep(t, "rel")
        /\ SetOwner(h[2], h[3], 0)
        /\ thread' = [thread EXCEPT ![t].prog = Tail(thread[t].prog)]
        /\ Commit(Heap)
        /\ UNCHANGED << addr, snap, ucAssigned, ret, nOps >>

VisitStep(t) ==
    LET h == Head(thread[t].prog)
    IN  /\ AtStep(t, "visit")
        /\ Owner(h[2], h[3]) = 0
        /\ thread' = [thread EXCEPT ![t].prog = Tail(thread[t].prog)]
        /\ Commit(ApplyEff(Heap, h))
        /\ UNCHANGED << mMutexConnections, mMutexFeatures, mMutexPose,
                        addr, snap, ucAssigned, ret, nOps >>

\* a null pKF in pKF->AddChild(this) is undefined behaviour: the process
\* stops, or the call goes on
Effect(t) ==
    LET h == Head(thread[t].prog)
    IN  /\ AtStep(t, "eff")
        /\ thread' = [thread EXCEPT ![t].prog = Tail(thread[t].prog)]
        /\ Commit(ApplyEff(Heap, h))
        /\ \E ub \in UBOutcomes :
              ret' = IF h[4] = "nullDeref" /\ ub = "crash"
                     THEN [ret EXCEPT !.status = "crash"] ELSE ret
        /\ UNCHANGED << mMutexConnections, mMutexFeatures, mMutexPose,
                        addr, snap, ucAssigned, nOps >>

ExpandStep(t) ==
    LET h == Head(thread[t].prog)
    IN  /\ AtStep(t, "expand")
        /\ thread' = [thread EXCEPT ![t].prog = Expansion(Heap, h) \o Tail(thread[t].prog)]
        /\ Commit(Heap)
        /\ UNCHANGED << mMutexConnections, mMutexFeatures, mMutexPose,
                        addr, snap, ucAssigned, ret, nOps >>

\* a read of a pose member into the locals of the thread
ReadStep(t) ==
    LET h  == Head(thread[t].prog)
        k  == h[3]
        th0 == thread[t]
        rd == CASE h[4] = "mTcw" ->
                       [th0 EXCEPT !.rot = mTcw[k].so3, !.trans = mTcw[k].translation,
                                   !.frame = "cw", !.seen = 2]
                [] h[4] = "mTwc" ->
                       [th0 EXCEPT !.rot = mTwc[k].so3, !.trans = mTwc[k].translation,
                                   !.frame = "wc", !.seen = 2]
                [] h[4] = "mTcw.so3" ->
                       [th0 EXCEPT !.rot = mTcw[k].so3, !.frame = "cw", !.seen = @ + 1]
                [] h[4] = "mRcw" ->
                       [th0 EXCEPT !.rot = mRcw[k], !.frame = "cw", !.seen = @ + 1]
                [] h[4] = "mTcw.translation" ->
                       [th0 EXCEPT !.trans = mTcw[k].translation, !.frame = "cw",
                                   !.seen = @ + 1]
                [] h[4] = "mRwc" ->
                       [th0 EXCEPT !.rot = mRwc[k], !.frame = "wc", !.seen = @ + 1]
                [] h[4] = "mTwc.translation" ->
                       [th0 EXCEPT !.trans = mTwc[k].translation, !.frame = "wc",
                                   !.seen = @ + 1]
    IN  /\ AtStep(t, "read")
        /\ thread' = [thread EXCEPT ![t] = [rd EXCEPT !.prog = Tail(th0.prog)]]
        /\ Commit(Heap)
        /\ UNCHANGED << mMutexConnections, mMutexFeatures, mMutexPose,
                        addr, snap, ucAssigned, ret, nOps >>

\* thread t enters the call op on keyframe k
Start(t, op, k, prog) ==
    /\ CanCall /\ nOps >= 0
    /\ thread[t].prog = << >>
    /\ thread' = [thread EXCEPT ![t] = [Idle EXCEPT !.op = op, !.kf = k, !.prog = prog,
                                                     !.done = { j \in DOMAIN mnIds : mnIds[j] # NULL }]]
    /\ nOps' = nOps + 1
    /\ Commit(Heap)
    /\ UNCHANGED << mMutexConnections, mMutexFeatures, mMutexPose,
                    addr, snap, ucAssigned, ret >>

\* ------------------------------------------------ threads reading the pose
\* KeyFrame::SetPose
SetPoseProg(k, Tcw) ==
    << Acq("Pose", k),
       Eff("mTcw.so3", k, Tcw), Eff("mTcw.translation", k, Tcw),
       Eff("mRcw", k, NULL), Eff("mTwc", k, NULL), Eff("mRwc", k, NULL) >>
    \o (IF mImuCalib[k].mbIsSet THEN << Eff("mOwb", k, NULL) >> ELSE << >>)
    \o << Rel("Pose", k) >>

\* the locks and the pose reads of the readers
ReaderProg(op, k) ==
    CASE op = "GetPose" ->
             << Acq("Pose", k), Read("mTcw", k), Rel("Pose", k) >>
      [] op = "GetPoseInverse" ->
             << Acq("Pose", k), Read("mTwc", k), Rel("Pose", k) >>
      [] op = "GetRotation" ->
             << Acq("Pose", k), Read("mRcw", k), Rel("Pose", k) >>
      [] op = "GetTranslation" ->
             << Acq("Pose", k), Read("mTcw.translation", k), Rel("Pose", k) >>
      \* lines 771-773, a feature with a positive depth
      [] op = "UnprojectStereo" ->
             << Acq("Pose", k), Read("mRwc", k), Read("mTwc.translation", k),
                Rel("Pose", k) >>
      \* lines 788-793
      [] op = "ComputeSceneMedianDepth" ->
             << Acq("Features", k), Acq("Pose", k),
                Read("mTcw.translation", k), Read("mRcw", k),
                Rel("Pose", k), Rel("Features", k) >>
      \* lines 1023 and 1084
      [] op \in {"ProjectPointDistort", "ProjectPointUnDistort"} ->
             << Read("mRcw", k), Read("mTcw.translation", k) >>

\* The map is built first, one thread linking every keyframe in insertion
\* order; the threads then call into the newest keyframe.
InitThreads == Constructed /\ nOps = 1 - NKF

NextPose ==
    \/ nOps < 0 /\ Op_UpdateConnections(NKF + nOps)
    \/ \E t \in Threads : \E Tcw \in PoseChoices :
          Start(t, "SetPose", NKF - 1, SetPoseProg(NKF - 1, Tcw))
    \/ \E t \in Threads : \E op \in { "GetPose", "GetPoseInverse", "GetRotation", "GetTranslation",
                                       "UnprojectStereo", "ComputeSceneMedianDepth",
                                       "ProjectPointDistort", "ProjectPointUnDistort" } :
          Start(t, op, NKF - 1, ReaderProg(op, NKF - 1))
    \/ \E t \in Threads : Start(t, "SetBadFlag", NKF - 1, SetBadFlagProg(NKF - 1))
    \/ \E t \in Threads : Acquire(t)
    \/ \E t \in Threads : Release(t)
    \/ \E t \in Threads : VisitStep(t)
    \/ \E t \in Threads : Effect(t)
    \/ \E t \in Threads : ExpandStep(t)
    \/ \E t \in Threads : ReadStep(t)

SpecPose == InitThreads /\ [][NextPose]_vars

\* -------------------------------------------- threads changing the graph
\* each thread makes one call
NextLocks ==
    \/ nOps < 0 /\ Op_UpdateConnections(NKF + nOps)
    \/ \E t \in Threads : \E k \in KF : thread[t].op = "idle" /\ Start(t, "SetBadFlag", k, SetBadFlagProg(k))
    \/ \E t \in Threads : \E k \in KF : thread[t].op = "idle" /\ Start(t, "SetErase", k, SetEraseProg(k))
    \/ \E t \in Threads : \E k \in KF :
          ~mbBad[k] /\ thread[t].op = "idle" /\ Start(t, "UpdateConnections", k, UpdateConnectionsProg(k))
    \/ \E t \in Threads : \E k \in KF :
          ~mbBad[k] /\ thread[t].op = "idle" /\ Start(t, "AddConnection", k, AddConnectionProg(k, Partner(k), th))
    \/ \E t \in Threads : \E k \in KF :
          ~mbBad[k] /\ thread[t].op = "idle" /\ Start(t, "EraseConnection", k, EraseConnectionProg(k, Partner(k)))
    \/ \E t \in Threads : \E k \in KF \ {InitKFid} : \E pKF \in {InitKFid, Sibling(k)} :
          ~mbBad[k] /\ ~mbBad[pKF] /\ thread[t].op = "idle" /\ Start(t, "ChangeParent", k, ChangeParentProg(k, pKF))
    \/ \E t \in Threads : Acquire(t)
    \/ \E t \in Threads : Release(t)
    \/ \E t \in Threads : VisitStep(t)
    \/ \E t \in Threads : Effect(t)
    \/ \E t \in Threads : ExpandStep(t)
    \/ \E t \in Threads : ReadStep(t)

SpecLocks == InitThreads /\ [][NextLocks]_vars

\* ------------------------------------- threads guarding and culling
\* KeyFrame::SetNotErase, AddLoopEdge and AddMergeEdge: the whole body runs
\* under mMutexConnections
GuardProg(op, k, pKF) ==
    << Acq("Connections", k), Eff(op, k, pKF), Rel("Connections", k) >>

\* loop closing guards the newest keyframe while local mapping culls it
NextGuard ==
    \/ nOps < 0 /\ Op_UpdateConnections(NKF + nOps)
    \/ \E t \in Threads : \E op \in {"SetNotErase", "AddLoopEdge", "AddMergeEdge"} :
          Start(t, op, NKF - 1, GuardProg(op, NKF - 1, InitKFid))
    \/ \E t \in Threads : Start(t, "SetBadFlag", NKF - 1, SetBadFlagProg(NKF - 1))
    \/ \E t \in Threads : Start(t, "SetErase", NKF - 1, SetEraseProg(NKF - 1))
    \/ \E t \in Threads : Acquire(t)
    \/ \E t \in Threads : Release(t)
    \/ \E t \in Threads : VisitStep(t)
    \/ \E t \in Threads : Effect(t)
    \/ \E t \in Threads : ExpandStep(t)
    \/ \E t \in Threads : ReadStep(t)

SpecGuard == InitThreads /\ [][NextGuard]_vars

\* --------------------------------------- threads constructing keyframes
\* KeyFrame::KeyFrame(Frame&, Map*, KeyFrameDatabase*): the id is taken from
\* the static counter nNextId, which is neither atomic nor under a mutex
KeyFrameProg(k) == << Expand("nNextId++", k, NULL) >>

\* the tracking threads construct keyframes in the storage Fresh
NextIds ==
    \/ \E t \in Threads : \E k \in Fresh :
          /\ mnIds[k] = NULL
          /\ \A u \in Threads : thread[u].kf # k
          /\ Start(t, "KeyFrame", k, KeyFrameProg(k))
    \/ \E t \in Threads : ExpandStep(t)
    \/ \E t \in Threads : Effect(t)

SpecIds == Init /\ [][NextIds]_vars

\* ------------------------------------------------------------------ queries

\* KeyFrame::GetConnectedKeyFrames
GetConnectedKeyFrames(H, k) == DOMAIN H.mConnectedKeyFrameWeights[k]

\* KeyFrame::GetVectorCovisibleKeyFrames
GetVectorCovisibleKeyFrames(H, k) == H.mvpOrderedConnectedKeyFrames[k]

\* KeyFrame::GetBestCovisibilityKeyFrames
GetBestCovisibilityKeyFrames(H, k, N) ==
    IF Len(H.mvpOrderedConnectedKeyFrames[k]) < N
    THEN H.mvpOrderedConnectedKeyFrames[k]
    ELSE SubSeq(H.mvpOrderedConnectedKeyFrames[k], 1, N)

\* KeyFrame::GetCovisiblesByWeight: std::upper_bound with weightComp (a > b)
\* over the descending weights finds the first weight smaller than w
GetCovisiblesByWeight(H, k, w) ==
    LET ks == H.mvpOrderedConnectedKeyFrames[k]
        ws == H.mvOrderedWeights[k]
        lt == { i \in DOMAIN ws : w > ws[i] }
        n  == IF lt = {} THEN Len(ws)
              ELSE (CHOOSE i \in lt : \A j \in lt : i <= j) - 1
    IN  IF ks = << >> THEN << >>
        ELSE IF lt = {} /\ ws[Len(ws)] < w THEN << >>
        ELSE SubSeq(ks, 1, n)

\* KeyFrame::GetParent, GetChilds
GetParent(H, k) == H.mpParent[k]
GetChilds(H, k) == H.mspChildrens[k]

\* -------------------------------------------------------- trajectory export
\* System::SaveTrajectoryTUM, lines 609-613, for one frame whose reference
\* keyframe is pKF (SaveTrajectoryEuRoC and SaveTrajectoryKITTI hold the same
\* loop): GetParent() is followed while the keyframe is bad.  pKF->isBad()
\* through a null pKF is undefined behaviour (status "ub"); a walk of more
\* steps than there are keyframes is in a cycle and never ends ("hang").
RECURSIVE SaveTrajectoryTUM(_, _, _)
SaveTrajectoryTUM(H, pKF, fuel) ==
    IF pKF = NULL THEN [pKF |-> NULL, status |-> "ub"]
    ELSE IF ~isBad(H, pKF) THEN [pKF |-> pKF, status |-> "ok"]
    ELSE IF fuel = 0 THEN [pKF |-> pKF, status |-> "hang"]
    ELSE SaveTrajectoryTUM(H, GetParent(H, pKF), fuel - 1)

\* the graph operations of mapping, and the export of a frame that refers to
\* any of the keyframes
NextExport ==
    \/ \E k \in KF : Op_UpdateConnections(k)
    \/ \E k \in KF : \E pKF \in {InitKFid, Sibling(k)} : Op_ChangeParent(k, pKF)
    \/ \E k \in KF : Op_SetBadFlag(k)
    \/ \E pKF \in KF : \E ub \in UBOutcomes :
          LET r == SaveTrajectoryTUM(Heap, pKF, NKF)
          IN  /\ CanCall
              /\ Call("SaveTrajectoryTUM", pKF, r.pKF,
                      [Heap EXCEPT !.status = IF r.status # "ub" THEN r.status
                                              ELSE IF ub = "crash" THEN "crash" ELSE "ok"])

SpecExport == Init /\ [][NextExport]_vars

\* ------------------------------------------------------- scene median depth
\* (vDepths.size()-1) in size_t with an empty vector is 2^64 - 1, and its
\* quotient by an int q >= 1 is above 2^33: the model keeps 2^30 for the
\* wrapped difference, above every quotient and every length it builds
Wrapped == 2^30

\* the values of q of the calls
QChoices == 1 .. 2

\* KeyFrame::ComputeSceneMedianDepth, lines 779-812: -1 for a keyframe
\* without features; otherwise the depths of the landmarks of the filled
\* slots, sorted, and the element at (size - 1) / q.  idx is the index used,
\* size the number of depths collected; status "ub" is an index outside the
\* vector.
ComputeSceneMedianDepth(H, k, q) ==
    LET N       == Len(H.mvpMapPoints[k])
        filled  == SelectSeq(H.mvpMapPoints[k], LAMBDA pMP : pMP # NULL)
        z(pMP)  == Rot(H.mRcw[k], GetWorldPos(pMP))[3] + H.mTcw[k].translation[3]
        vDepths == SortSeq([i \in 1 .. Len(filled) |-> z(filled[i])],
                           LAMBDA a, b : a < b)
        size    == Len(vDepths)
        idx     == (IF size = 0 THEN Wrapped ELSE size - 1) \div q
    IN  IF N = 0
        THEN [sentinel |-> TRUE, idx |-> NULL, size |-> 0, z |-> 0 - 1, status |-> "ok"]
        ELSE IF idx < size
        THEN [sentinel |-> FALSE, idx |-> idx, size |-> size, z |-> vDepths[idx + 1],
              status |-> "ok"]
        ELSE [sentinel |-> FALSE, idx |-> idx, size |-> size, z |-> NULL, status |-> "ub"]

\* matches are erased and the median depth is asked for; a read outside the
\* vector faults or yields whatever lies there
NextDepth ==
    \/ \E k \in KF : \E idx \in {1, NMP} : Op_EraseMapPointMatch(k, idx)
    \/ \E k \in KF : \E q \in QChoices : \E ub \in UBOutcomes :
          LET r == ComputeSceneMedianDepth(Heap, k, q)
          IN  /\ CanCall
              /\ Call("ComputeSceneMedianDepth", k, r.idx,
                      [Heap EXCEPT !.status = IF r.status # "ub" THEN r.status
                                              ELSE IF ub = "crash" THEN "crash" ELSE "ok"])

SpecDepth == Init /\ [][NextDepth]_vars

\* the call that has just returned
Returned(op, k) == ret.op = op /\ ret.kf = k /\ ret.status = "ok"
\* this step is the call op on keyframe k
IsCall(op, k) == nOps' = nOps + 1 /\ ret'.op = op /\ ret'.kf = k

\* ------------------------------------------------------------------- claims

\* C1: after any UpdateConnections(K) call has completed, for every pair of
\* keyframes A and B, GetWeight(A,B) = GetWeight(B,A), also for neighbours of
\* K whose tally is below the threshold.
C1_SymmetricWeights ==
    (ret.op = "UpdateConnections" /\ ret.status = "ok")
        => \A a \in KF, b \in KF : GetWeight(Heap, a, b) = GetWeight(Heap, b, a)

\* the parent chain of k, followed for at most NKF steps, never returns to k
RECURSIVE ReachesSelf(_, _, _)
ReachesSelf(k, cur, n) ==
    IF n = 0 \/ cur = NULL THEN FALSE
    ELSE IF mpParent[cur] = k THEN TRUE
    ELSE ReachesSelf(k, mpParent[cur], n - 1)

Acyclic == \A k \in KF : ~ReachesSelf(k, k, NKF)

\* every keyframe, the initial one excepted, went through its first
\* connection update (the culled ones too, before they were culled)
AllLinked == \A k \in KF \ {InitKFid} : ~mbFirstConnection[k]

\* C2: in every quiescent state reached by UpdateConnections, ChangeParent and
\* SetBadFlag calls (once the keyframes were linked into the map), exactly one
\* non-bad keyframe, the initial one, has no parent, every other non-bad
\* keyframe has a parent, and the parent graph has no cycle.
C2_SpanningTree ==
    (AllLinked /\ ret.status = "ok")
        => /\ { k \in KF : ~mbBad[k] /\ mpParent[k] = NULL } = {InitKFid}
           /\ Acyclic

\* the new parent of a former child c of the culled keyframe k: not null, not
\* k, and either k's former parent or a sibling that c is linked to at least
\* as strongly as to k's former parent
Reattached(c, k) ==
    LET P == mpParent[k]
        p == mpParent'[c]
    IN  /\ p # NULL
        /\ p # k
        /\ \/ p = P
           \/ /\ p \in mspChildrens[k] \ {c}
              /\ GetWeight(Heap, c, p) > 0
              /\ GetWeight(Heap, c, p) >= GetWeight(Heap, c, P)

\* C3: after SetBadFlag culls a non-root, unguarded keyframe K that has
\* children, every former child of K has a non-null parent different from K:
\* a candidate (K's former parent or a reassigned sibling) it is linked to
\* with maximal weight or, without any link, K's former parent.
C3_ChildrenReattached ==
    [][ \A k \in KF \ {InitKFid} :
          (IsCall("SetBadFlag", k) /\ ~mbNotErase[k] /\ ~mbBad[k] /\ mspChildrens[k] # {})
              => /\ ret'.status = "ok"
                 /\ mbBad'[k]
                 /\ \A c \in mspChildrens[k] : Reattached(c, k) ]_vars

\* k is in no query result of the keyframe n
NotListed(k, n) ==
    /\ k \notin GetConnectedKeyFrames(Heap, n)
    /\ k \notin Range(GetVectorCovisibleKeyFrames(Heap, n))
    /\ k \notin Range(GetBestCovisibilityKeyFrames(Heap, n, NKF))
    /\ k \notin Range(GetCovisiblesByWeight(Heap, n, 1))

\* C4: once isBad(K) is true, K is in no result of GetVectorCovisibleKeyFrames,
\* GetBestCovisibilityKeyFrames, GetCovisiblesByWeight or GetConnectedKeyFrames
\* of any other keyframe.
C4_BadNeverListed ==
    \A k \in KF, n \in KF : (isBad(Heap, k) /\ n # k /\ ~isBad(Heap, n)) => NotListed(k, n)

\* C5: when SetBadFlag has marked K bad and returned, no other keyframe has K
\* in its weight map and no landmark lists K as an observer.
C5_CulledFullyUnlinked ==
    \A k \in KF :
        (Returned("SetBadFlag", k) /\ isBad(Heap, k))
            => /\ \A n \in KF \ {k} : GetWeight(Heap, n, k) = 0
               /\ \A mp \in MP : k \notin GetObservations(Heap, mp)

\* C6: the bad flag is terminal: once isBad(K) is true it stays true, whatever
\* operation runs.
C6_BadIsTerminal ==
    [][ \A k \in KF : isBad(Heap, k) => mbBad'[k] ]_vars

\* SetErase has returned on a keyframe that was bad before the call (the call
\* culls only a keyframe whose to-be-erased flag is set)
C6_Witness ==
    \E k \in KF : Returned("SetErase", k) /\ isBad(Heap, k) /\ ~mbToBeErased[k]

\* C7: SetBadFlag, called directly or through SetErase, on the initial
\* keyframe of the map never marks it bad and leaves its weight map, ordered
\* list, parent, children, landmark slots and to-be-erased flag unchanged.
C7_RootCullIsNoOp ==
    [][ (IsCall("SetBadFlag", InitKFid) \/ IsCall("SetErase", InitKFid))
          => /\ ret'.status = "ok"
             /\ ~mbBad'[InitKFid]
             /\ mConnectedKeyFrameWeights'[InitKFid] = mConnectedKeyFrameWeights[InitKFid]
             /\ mvpOrderedConnectedKeyFrames'[InitKFid] = mvpOrderedConnectedKeyFrames[InitKFid]
             /\ mvOrderedWeights'[InitKFid] = mvOrderedWeights[InitKFid]
             /\ mpParent'[InitKFid] = mpParent[InitKFid]
             /\ mspChildrens'[InitKFid] = mspChildrens[InitKFid]
             /\ mvpMapPoints'[InitKFid] = mvpMapPoints[InitKFid]
             /\ mbToBeErased'[InitKFid] = mbToBeErased[InitKFid]
             /\ mObservations' = mObservations
             /\ InitKFid \in mspKeyFrames' ]_vars

\* SetBadFlag has returned on an initial keyframe that has neighbours and a child
C7_Witness ==
    /\ Returned("SetBadFlag", InitKFid)
    /\ GetConnectedKeyFrames(Heap, InitKFid) # {}
    /\ GetChilds(Heap, InitKFid) # {}

\* C8: SetBadFlag on a non-root keyframe whose not-erase guard is set only
\* sets the to-be-erased flag: the keyframe stays not bad, and the
\* covisibility edges of every keyframe, the landmark observations, the
\* parents and the children are unchanged.
C8_GuardedCullOnlyDefers ==
    [][ \A k \in KF \ {InitKFid} :
          (IsCall("SetBadFlag", k) /\ mbNotErase[k] /\ ~mbBad[k])
              => /\ ret'.status = "ok"
                 /\ mbToBeErased'[k]
                 /\ ~mbBad'[k]
                 /\ UNCHANGED << mConnectedKeyFrameWeights, mvpOrderedConnectedKeyFrames,
                                 mvOrderedWeights, mObservations, mvpMapPoints, mpParent,
                                 mspChildrens, mbNotErase, mspKeyFrames, mpKeyFrameDB >> ]_vars

\* SetBadFlag has returned on a guarded keyframe that has a parent and neighbours
C8_Witness ==
    \E k \in KF \ {InitKFid} :
        /\ Returned("SetBadFlag", k)
        /\ mbNotErase[k] /\ mbToBeErased[k] /\ ~isBad(Heap, k)
        /\ GetParent(Heap, k) # NULL
        /\ GetConnectedKeyFrames(Heap, k) # {}

\* C9: a deferred deletion is honoured: when SetErase(K) is called with the
\* to-be-erased flag set and K has no loop edge, K is bad when SetErase
\* returns; while K has a loop edge, SetErase leaves K not bad and the
\* deletion pending (guard and to-be-erased flag still set).
C9_DeferredCullHonoured ==
    [][ \A k \in KF :
          (IsCall("SetErase", k) /\ mbToBeErased[k] /\ ~mbBad[k])
              => IF mspLoopEdges[k] = {}
                 THEN ret'.status = "ok" => mbBad'[k]
                 ELSE /\ ret'.status = "ok"
                      /\ ~mbBad'[k] /\ mbToBeErased'[k] /\ mbNotErase'[k] ]_vars

\* SetErase has returned after culling a keyframe whose deletion was deferred
C9_Witness ==
    \E k \in KF : Returned("SetErase", k) /\ isBad(Heap, k) /\ mbToBeErased[k]

\* C10: a keyframe with a non-empty loop-edge set or a non-empty merge-edge
\* set is never made bad by SetBadFlag and SetErase calls.
C10_EdgeEndpointNeverCulled ==
    \A k \in KF : (mspLoopEdges[k] # {} \/ mspMergeEdges[k] # {}) => ~isBad(Heap, k)

\* C11: ChangeParent(K, K) is rejected with an error signalled to the caller
\* and leaves K's parent reference and K's children set (and every other
\* member of the graph) exactly as they were before the call.
C11_SelfParentRejected ==
    [][ \A k \in KF :
          (IsCall("ChangeParent", k) /\ ret'.arg = k)
              => /\ ret'.status = "throw"
                 /\ mpParent'[k] = mpParent[k]
                 /\ mspChildrens'[k] = mspChildrens[k]
                 /\ UNCHANGED << mpParent, mspChildrens, mConnectedKeyFrameWeights,
                                 mvpOrderedConnectedKeyFrames, mvOrderedWeights >> ]_vars

\* ChangeParent(K, K) has thrown on a keyframe that has a parent and a child
C11_Witness ==
    \E k \in KF :
        /\ ret.op = "ChangeParent" /\ ret.kf = k /\ ret.arg = k /\ ret.status = "throw"
        /\ GetParent(Heap, k) # NULL /\ GetParent(Heap, k) # k
        /\ GetChilds(Heap, k) # {} /\ k \notin GetChilds(Heap, k)

\* C12: after UpdateConnections(K), for every keyframe N that is not K, not
\* bad and in K's map, GetWeight(K,N) equals the number of K's non-null,
\* non-bad landmark slots whose observation list contains N; when that number
\* is at least 15, N is in K's ordered covisible list.
C12_WeightIsSharedCount ==
    \A k \in KF :
        Returned("UpdateConnections", k)
            => \A n \in KF \ {k} :
                   (~isBad(Heap, n) /\ GetMap(n) = GetMap(k))
                       => /\ GetWeight(Heap, k, n) = Tally(Heap, k, n)
                          /\ Tally(Heap, k, n) >= th
                                 => n \in Range(GetVectorCovisibleKeyFrames(Heap, k))

\* the neighbours UpdateConnections(K) promotes: those whose tally reaches the
\* threshold or, when none does, those of maximal tally
Promotable(k) ==
    LET cnt  == KFcounter(Heap, k)
        over == { n \in DOMAIN cnt : cnt[n] >= th }
    IN  IF over # {} THEN over
        ELSE { n \in DOMAIN cnt : \A o \in DOMAIN cnt : cnt[o] <= cnt[n] }

\* C13: after UpdateConnections(K) on a keyframe that shares a landmark with
\* some valid neighbour: every neighbour whose tally is >= 15 has an edge with
\* that weight recorded on both sides; if no neighbour reaches 15, exactly one
\* neighbour, of highest tally, is promoted on both sides; in either case K's
\* ordered covisible list is non-empty and holds exactly the promoted
\* neighbours.
C13_PromotionRule ==
    \A k \in KF :
        (Returned("UpdateConnections", k) /\ DOMAIN KFcounter(Heap, k) # {})
            => LET cnt  == KFcounter(Heap, k)
                   lst  == GetVectorCovisibleKeyFrames(Heap, k)
                   over == { n \in DOMAIN cnt : cnt[n] >= th }
               IN  /\ lst # << >>
                   /\ \A i \in DOMAIN lst, j \in DOMAIN lst : lst[i] = lst[j] => i = j
                   /\ Range(lst) \subseteq Promotable(k)
                   /\ IF over # {} THEN Range(lst) = over ELSE Len(lst) = 1
                   /\ \A n \in Range(lst) :
                          /\ GetWeight(Heap, k, n) = cnt[n]
                          /\ GetWeight(Heap, n, k) = cnt[n]

\* UpdateConnections has returned on a keyframe with two neighbours below the
\* threshold, one of which was promoted
C13_Witness ==
    \E k \in KF :
        /\ Returned("UpdateConnections", k)
        /\ Cardinality(DOMAIN KFcounter(Heap, k)) = 2
        /\ \A n \in DOMAIN KFcounter(Heap, k) : KFcounter(Heap, k)[n] < th
        /\ Len(GetVectorCovisibleKeyFrames(Heap, k)) = 1

\* the call UpdateConnections(k) of this step applied the first-connection
\* rule as the spec words it: the parent is a neighbour of highest tally, that
\* neighbour gains k as a child, nothing else of the tree changes
FirstConnectionRule(k) ==
    LET cnt == KFcounter(Heap, k)
        p   == mpParent'[k]
    IN  /\ p \in DOMAIN cnt
        /\ \A o \in DOMAIN cnt : cnt[o] <= cnt[p]
        /\ mpParent' = [mpParent EXCEPT ![k] = p]
        /\ mspChildrens' = [mspChildrens EXCEPT ![p] = @ \cup {k}]

\* C14: UpdateConnections assigns a parent to K at most once: only on K's
\* first connection update that finds a neighbour and only if K is not the
\* initial keyframe, the parent becomes K's highest-weight neighbour and that
\* neighbour gains K as a child; every later UpdateConnections(K) leaves K's
\* parent and all children sets unchanged, and the initial keyframe never
\* receives a parent from UpdateConnections.
C14_ParentAssignedOnce ==
    [][ \A k \in KF :
          IsCall("UpdateConnections", k)
              => IF ucAssigned[k] = 0 /\ k # InitKFid /\ DOMAIN KFcounter(Heap, k) # {}
                 THEN \/ FirstConnectionRule(k)
                      \/ UNCHANGED << mpParent, mspChildrens >>
                 ELSE UNCHANGED << mpParent, mspChildrens >> ]_vars

\* C14 as amended: UpdateConnections assigns a parent to K exactly when K's
\* first-connection flag is set (initially, or set again by
\* SetFirstConnection(true)), K is not the initial keyframe and a neighbour is
\* found: the parent becomes a highest-weight neighbour, that neighbour gains
\* K as a child and the flag is cleared; every other UpdateConnections(K)
\* leaves all parents, all children sets and the flags unchanged, and the
\* initial keyframe never receives a parent from UpdateConnections.
C14_ParentAssignedWhileArmed ==
    [][ \A k \in KF :
          IsCall("UpdateConnections", k)
              => IF mbFirstConnection[k] /\ k # InitKFid /\ DOMAIN KFcounter(Heap, k) # {}
                 THEN /\ FirstConnectionRule(k)
                      /\ mbFirstConnection' = [mbFirstConnection EXCEPT ![k] = FALSE]
                 ELSE UNCHANGED << mpParent, mspChildrens, mbFirstConnection >> ]_vars

\* UpdateConnections has given a keyframe a parent for the second time, and
\* the keyframe is now listed as a child of two keyframes
C14_Witness ==
    \E k \in KF \ {InitKFid} :
        /\ Returned("UpdateConnections", k)
        /\ ucAssigned[k] = 2
        /\ GetParent(Heap, k) # NULL
        /\ \E q \in KF \ {GetParent(Heap, k)} : k \in GetChilds(Heap, q)

\* this step is SetBadFlag culling the keyframe k, whose parent is a live
\* keyframe outside its children
CullsWithParent(k) ==
    /\ IsCall("SetBadFlag", k) /\ ret'.status = "ok"
    /\ ~mbBad[k] /\ mbBad'[k]
    /\ mpParent[k] # NULL /\ mpParent[k] # k
    /\ mpParent[k] \notin mspChildrens[k] /\ ~mbBad[mpParent[k]]

\* C15: during culling, a child reassigned in an earlier iteration is a parent
\* candidate for the remaining children, and each iteration reparents the
\* (child, candidate) pair of maximum covisibility weight: a child with no
\* link to the culled keyframe's parent P but a link to a sibling that was
\* reattached to P gets a sibling it is linked to, not P, as its new parent.
C15_SiblingBecomesCandidate ==
    [][ \A k \in KFCull \ {InitKFid} :
          CullsWithParent(k)
              => \A c \in mspChildrens[k], sib \in mspChildrens[k] :
                     ( /\ c # sib /\ ~mbBad[c] /\ ~mbBad[sib]
                       /\ GetWeight(Heap, c, mpParent[k]) = 0
                       /\ GetWeight(Heap, c, sib) > 0
                       /\ GetWeight(Heap, sib, mpParent[k]) > 0
                       /\ mpParent'[sib] = mpParent[k] )
                         => /\ mpParent'[c] # mpParent[k]
                            /\ mpParent'[c] \in mspChildrens[k] \ {c}
                            /\ GetWeight(Heap, c, mpParent'[c]) > 0 ]_vars

\* the keyframe k was saved and PostLoad has returned on it
Restored(k) == ret.op = "PostLoad" /\ ret.kf = k /\ snap[k].stage = "restored"

\* everything the keyframe referred to when it was saved was in the saved sets
SavedWhole(k) ==
    LET sn == snap[k]
    IN  /\ DOMAIN sn.mConnectedKeyFrameWeights \subseteq sn.saved.kf
        /\ sn.mpParent = NULL \/ sn.mpParent \in sn.saved.kf
        /\ sn.mspChildrens \cup sn.mspLoopEdges \cup sn.mspMergeEdges \subseteq sn.saved.kf
        /\ Range(sn.mvpMapPoints) \ {NULL} \subseteq sn.saved.mp
        /\ sn.mpCamera \in sn.saved.cam

\* the dictionaries hold every saved id
DictWhole(k, dict) ==
    /\ snap[k].saved.kf \subseteq dict.kf
    /\ snap[k].saved.mp \subseteq dict.mp
    /\ snap[k].saved.cam \subseteq dict.cam

\* C16: when everything a keyframe refers to is in the saved sets and the
\* dictionaries map every saved id, PreSave followed by PostLoad gives back the
\* weight map, the parent, the children, the loop edges and the merge edges
\* the keyframe had before PreSave.
C16_RoundTrip ==
    \A k \in KF :
        Restored(k) /\ SavedWhole(k) /\ DictWhole(k, ret.arg) =>
            /\ ret.status = "ok"
            /\ mConnectedKeyFrameWeights[k] = snap[k].mConnectedKeyFrameWeights
            /\ mpParent[k] = snap[k].mpParent
            /\ mspChildrens[k] = snap[k].mspChildrens
            /\ mspLoopEdges[k] = snap[k].mspLoopEdges
            /\ mspMergeEdges[k] = snap[k].mspMergeEdges

\* a keyframe with neighbours, a parent, a child, a loop edge and a merge
\* edge went through PreSave, the archive and PostLoad
C16_Witness ==
    \E k \in KF :
        /\ Restored(k) /\ SavedWhole(k) /\ DictWhole(k, ret.arg) /\ snap[k].fresh
        /\ mConnectedKeyFrameWeights[k] # EmptyMap
        /\ mpParent[k] # NULL
        /\ mspChildrens[k] # {}
        /\ mspLoopEdges[k] # {}
        /\ mspMergeEdges[k] # {}

\* the parent id PreSave stored is absent, or no key of the dictionary
ParentMissing(k, dict) ==
    \/ snap[k].mpParent = NULL
    \/ snap[k].mpParent \notin snap[k].saved.kf
    \/ mnId(snap[k].mpParent) \notin dict.kf

\* the camera id PreSave stored is absent, or no key of the dictionary
CameraMissing(k, dict) ==
    \/ snap[k].mpCamera = NULL
    \/ snap[k].mpCamera \notin snap[k].saved.cam
    \/ snap[k].mpCamera \notin dict.cam

\* the references of the saved keyframe whose ids were stored and resolve
Resolvable(S, k, dict) == S \cap snap[k].saved.kf \cap dict.kf

\* C17: PostLoad never aborts on a missing parent or camera: it returns, the
\* missing reference is null, no null entry is invented in the weight map or
\* in the children, loop-edge and merge-edge sets, and every stored reference
\* that resolves (slots, neighbours, children, loop and merge edges) is
\* restored.
C17_MissingStateTolerated ==
    \A k \in KF :
        Restored(k) /\ snap[k].fresh
                    /\ (ParentMissing(k, ret.arg) \/ CameraMissing(k, ret.arg)) =>
            LET sn == snap[k]
            IN  /\ ret.status = "ok"
                /\ ParentMissing(k, ret.arg) => mpParent[k] = NULL
                /\ CameraMissing(k, ret.arg) => mpCamera[k] = NULL
                /\ NULL \notin DOMAIN mConnectedKeyFrameWeights[k]
                /\ NULL \notin mspChildrens[k] \cup mspLoopEdges[k] \cup mspMergeEdges[k]
                /\ \A n \in Resolvable(DOMAIN sn.mConnectedKeyFrameWeights, k, ret.arg) :
                      /\ n \in DOMAIN mConnectedKeyFrameWeights[k]
                      /\ mConnectedKeyFrameWeights[k][n] = sn.mConnectedKeyFrameWeights[n]
                /\ Resolvable(sn.mspChildrens, k, ret.arg) \subseteq mspChildrens[k]
                /\ Resolvable(sn.mspLoopEdges, k, ret.arg) \subseteq mspLoopEdges[k]
                /\ Resolvable(sn.mspMergeEdges, k, ret.arg) \subseteq mspMergeEdges[k]
                /\ \A i \in DOMAIN sn.mvpMapPoints :
                      sn.mvpMapPoints[i] \in sn.saved.mp \cap ret.arg.mp =>
                          mvpMapPoints[k][i] = sn.mvpMapPoints[i]

\* the landmark in the camera frame of keyframe k, from the pose of k
InCameraFrame(k, pMP) == VecAdd(Rot(mTcw[k].so3, GetWorldPos(pMP)), mTcw[k].translation)

\* the pinhole projection fx * X / Z + cx, fy * Y / Z + cy of a point in front
\* of the camera lies outside the calibrated image
OutsideImage(Pc) ==
    /\ Pc[3] > 0
    /\ \/ fx * Pc[1] + cx * Pc[3] < mnMinX * Pc[3]
       \/ fx * Pc[1] + cx * Pc[3] > mnMaxX * Pc[3]
       \/ fy * Pc[2] + cy * Pc[3] < mnMinY * Pc[3]
       \/ fy * Pc[2] + cy * Pc[3] > mnMaxY * Pc[3]

IsProjectCall(k) ==
    \/ IsCall("ProjectPointDistort", k)
    \/ IsCall("ProjectPointUnDistort", k)

\* C18: ProjectPointDistort and ProjectPointUnDistort return (no exception);
\* they return false for a landmark whose depth in the camera frame is zero
\* or negative or whose projection is outside the image bounds; the pose of
\* the keyframe is unchanged.
C18_ProjectionFailsSafely ==
    [][ \A k \in KF :
          IsProjectCall(k) =>
              /\ ret'.status = "ok"
              /\ mTcw'[k] = mTcw[k] /\ mRcw'[k] = mRcw[k]
              /\ mTwc'[k] = mTwc[k] /\ mRwc'[k] = mRwc[k]
              /\ LET Pc == InCameraFrame(k, ret'.arg.pMP)
                 IN  Pc[3] <= 0 \/ OutsideImage(Pc) => ~ret'.arg.out.ok ]_vars

\* the poses a keyframe is ever given: the one of its construction and the
\* ones SetPose is called with
PosesSet == {Identity} \cup PoseChoices

\* the rotation and the translation thread t has read belong to one pose
ReadOnePose(t) ==
    \E P \in PosesSet :
        \/ /\ thread[t].frame = "cw"
           /\ thread[t].rot = P.so3
           /\ thread[t].trans = P.translation
        \/ /\ thread[t].frame = "wc"
           /\ thread[t].rot = Inverse(P).so3
           /\ thread[t].trans = Inverse(P).translation

\* C19: while another thread runs SetPose on the keyframe, a pose reader
\* (GetPose, GetPoseInverse, GetRotation, GetTranslation, UnprojectStereo,
\* ComputeSceneMedianDepth, ProjectPointDistort, ProjectPointUnDistort, the
\* relative pose cached by SetBadFlag) never reads a rotation and a
\* translation that belong to two different poses.
C19_NoTornPose ==
    \A t \in Threads : thread[t].seen = 2 => ReadOnePose(t)

\* the thread holding the mutex thread t is blocked on, 0 when t can step
WaitsFor(t) ==
    IF AtStep(t, "acq") \/ AtStep(t, "visit")
    THEN LET h == Head(thread[t].prog) IN Owner(h[2], h[3])
    ELSE 0

\* a set of threads each blocked on a mutex another of them holds
Deadlocked(S) == S # {} /\ \A t \in S : WaitsFor(t) \in S

\* C20: threads calling SetBadFlag, SetErase, UpdateConnections,
\* AddConnection, EraseConnection and ChangeParent on keyframes of one map
\* (a keyframe and one of its children among them) never reach a state where
\* each of a set of threads waits for a mutex held by another of the set.
C20_DeadlockFree == \A S \in SUBSET Threads : ~Deadlocked(S)

\* the keyframe mutexes thread t holds
HeldBy(t) == { hk \in {"Pose", "Connections", "Features"} \X KF : Owner(hk[1], hk[2]) = t }

\* the position of a mutex in the order pose, connectivity, landmark
\* references
LockRank(m) == CASE m = "Pose" -> 1 [] m = "Connections" -> 2 [] m = "Features" -> 3

\* C21: a thread about to take a mutex of a keyframe holds only mutexes of
\* that keyframe that come earlier in the order pose, connectivity, landmark
\* references, map reference; it holds no mutex of any other keyframe (it
\* does not call isBad, GetWeight, ChangeParent, AddChild, EraseChild or
\* GetPoseInverse of another keyframe with a mutex of its own held).
C21_LockDiscipline ==
    \A t \in Threads :
        (AtStep(t, "acq") \/ AtStep(t, "visit")) =>
            LET h == Head(thread[t].prog)
            IN  \A hk \in HeldBy(t) :
                    /\ hk[2] = h[3]
                    /\ LockRank(hk[1]) < LockRank(h[2])

\* thread t is at the iterator of a loop over the live weight map of
\* keyframe k and does not hold the mutex of the map
IteratesLive(t, k) ==
    /\ AtStep(t, "expand")
    /\ Head(thread[t].prog)[4] = "SetBadFlag:unlink"
    /\ Head(thread[t].prog)[3] = k
    /\ Owner("Connections", k) # t

\* thread t is at a write of the weight map of keyframe k
WritesWeights(t, k) ==
    /\ AtStep(t, "eff")
    /\ Head(thread[t].prog)[4] \in {"store", "erase", "assign", "clear"}
    /\ Head(thread[t].prog)[3] = k

\* C22: an operation that iterates the weight map (children set, edge sets,
\* landmark slots) of a keyframe iterates a copy made under the mutex: no
\* thread is inside a loop over the live container, without the mutex, at a
\* moment when another thread writes that container.
C22_SnapshotIteration ==
    \A t, u \in Threads : \A k \in KF :
        t # u => ~(IteratesLive(t, k) /\ WritesWeights(u, k))

\* the writes of the connectivity state of a keyframe (weights, ordering,
\* parent and children, erase guards, bad flag)
ConnectivityWrites ==
    { "store", "erase", "sort", "assign", "clear", "mpParent", "AddChild", "EraseChild",
      "mspChildrens.erase", "mbFirstConnection", "mbNotErase", "mbToBeErased", "mbBad" }

\* the places where a call branches or loops on the connectivity state of
\* its own keyframe
ConnectivityReads ==
    { "UpdateBestCovisibles", "AddConnection", "EraseConnection", "SetBadFlag:guard",
      "SetBadFlag:unlink", "SetBadFlag:locked", "SetBadFlag:scan", "SetBadFlag:force",
      "SetErase:deferred", "UpdateConnections:first" }

\* C23: a thread that writes the connectivity state of a keyframe, or reads
\* it to branch on, holds the connectivity mutex of that keyframe (likewise
\* the landmark slots under the landmark mutex and the map reference under
\* its mutex), so no read or write of the state overlaps a write.
C23_AccessUnderLock ==
    \A t \in Threads :
        LET h == Head(thread[t].prog)
        IN  /\ AtStep(t, "eff") /\ h[4] \in ConnectivityWrites
                => Owner("Connections", h[3]) = t
            /\ AtStep(t, "expand") /\ h[4] \in ConnectivityReads
                => Owner("Connections", h[3]) = t

\* the step makes neighbour n drop its edge to keyframe k
DropsEdge(k, n) ==
    /\ k \in DOMAIN mConnectedKeyFrameWeights[n]
    /\ k \notin DOMAIN mConnectedKeyFrameWeights'[n]

\* the step makes landmark mp drop its observation of keyframe k
DropsObservation(k, mp) == k \in mObservations[mp] /\ k \notin mObservations'[mp]

\* a thread has called SetBadFlag on keyframe k
Culling(k) == \E t \in Threads : thread[t].op = "SetBadFlag" /\ thread[t].kf = k

\* C24: while keyframe K is being culled, the step in which a neighbour
\* drops its edge to K, or a landmark drops its observation of K, is the
\* step that makes K bad, so no state a reader can look at has K not bad
\* with an edge or an observation already dropped.
C24_CullIsAtomic ==
    [][ \A k \in KF :
          Culling(k) =>
              /\ \A n \in KF \ {k} : DropsEdge(k, n) => mbBad'[k]
              /\ \A mp \in MP : DropsObservation(k, mp) => mbBad'[k] ]_vars

\* C26: a SetBadFlag call that has started can always still return: at no
\* point is its thread one of a set of threads each waiting for a mutex that
\* another of the set holds, whatever graph operation the other thread runs.
C26_CullReturns ==
    \A t \in Threads :
        thread[t].op = "SetBadFlag" =>
            \A S \in SUBSET Threads : t \in S => ~Deadlocked(S)

\* the ordered covisible list of k is exactly the non-bad keys of its weight
\* map, each once, with its stored weight, in descending order of weight
OrderedIsSortedLive(k) ==
    LET m   == mConnectedKeyFrameWeights[k]
        ord == mvpOrderedConnectedKeyFrames[k]
        ws  == mvOrderedWeights[k]
    IN  /\ Len(ws) = Len(ord)
        /\ { ord[i] : i \in DOMAIN ord } = { n \in DOMAIN m : ~mbBad[n] }
        /\ \A i, j \in DOMAIN ord : i # j => ord[i] # ord[j]
        /\ \A i \in DOMAIN ord : ws[i] = m[ord[i]]
        /\ \A i, j \in DOMAIN ord : i < j => ws[i] >= ws[j]

\* C27: AddConnection(K, other, w) leaves GetWeight(K, other) = w; when the
\* stored weight was already w the weight map and the ordered lists are left
\* as they were; otherwise the ordered list of K afterwards is sorted by
\* descending weight and holds every non-bad key of K's weight map exactly
\* once and no bad one.
C27_AddConnection ==
    [][ \A k \in KF :
          IsCall("AddConnection", k) =>
              LET pKF == ret'.arg[1]
                  w   == ret'.arg[2]
                  m   == mConnectedKeyFrameWeights[k]
              IN  /\ pKF \in DOMAIN mConnectedKeyFrameWeights'[k]
                  /\ mConnectedKeyFrameWeights'[k][pKF] = w
                  /\ IF pKF \in DOMAIN m /\ m[pKF] = w
                     THEN UNCHANGED << mConnectedKeyFrameWeights,
                                       mvpOrderedConnectedKeyFrames, mvOrderedWeights >>
                     ELSE OrderedIsSortedLive(k)' ]_vars

\* an edge to a culled keyframe was upserted: the weight is stored, the culled
\* keyframe is left out of the ordered list and a live neighbour is in it
C27_Witness ==
    /\ ret.op = "AddConnection" /\ ret.status = "ok"
    /\ mbBad[ret.arg[1]]
    /\ GetWeight(Heap, ret.kf, ret.arg[1]) = ret.arg[2]
    /\ mvpOrderedConnectedKeyFrames[ret.kf] # << >>
    /\ \A i \in DOMAIN mvpOrderedConnectedKeyFrames[ret.kf] :
          mvpOrderedConnectedKeyFrames[ret.kf][i] # ret.arg[1]

\* C28: whatever the inertial calibration of a keyframe (set or not set),
\* GetImuPosition() returns the translation of GetImuPose() for the current
\* pose, and GetCameraCenter() returns the translation of GetPoseInverse().
C28_DerivedNeverStale ==
    \A k \in KF :
        /\ ret.op = "GetImuPosition" /\ ret.kf = k =>
               ret.arg = GetImuPose(Heap, k).translation
        /\ ret.op = "GetCameraCenter" /\ ret.kf = k =>
               ret.arg = mTwc[k].translation

\* the members of the keyframes, the landmarks and the map, and the
\* parameters of the camera models
GraphState ==
    << mConnectedKeyFrameWeights, mvpOrderedConnectedKeyFrames, mvOrderedWeights,
       mpParent, mspChildrens, mbFirstConnection, mbNotErase, mbToBeErased, mbBad,
       mspLoopEdges, mspMergeEdges, mvpMapPoints, mObservations, mbBadMP, mspKeyFrames,
       mpKeyFrameDB, mpCamera, mTcw, mRcw, mTwc, mRwc, mOwb, mImuCalib, mvParameters >>

\* C25: once a pose vertex is built, no call of Update, UpdateW, SetParam,
\* read or write on it changes a member of a keyframe, of a landmark or of
\* the map, or a parameter of a camera model.
C25_VertexIsPrivate ==
    [][ nOps' = nOps + 1 /\ ret'.op \in {"Update", "UpdateW", "SetParam", "read", "write"}
          => UNCHANGED GraphState ]_vars

\* C29: for every rotation vector w of norm below pi, below and above the
\* threshold of 1e-5, logSO3(expSO3(w)) is w to within 1e-5 in every
\* component.
C29_LogOfExp ==
    ret.op = "logSO3" /\ ret.arg.from = "expSO3" =>
        \A i \in 1 .. 3 :
            FpLess(FpAbs(FpSub(ret.arg.out[i], ret.arg.w[i])), Threshold)

\* the cosine logSO3 derives from the trace of R
CosOfTrace(R) ==
    FpMul(FpSub(FpAdd(FpAdd(R[1][1], R[2][2]), R[3][3]), Fp(1, 0)), Fp(5, -1))

\* logSO3 takes one of its two early returns on R
Degenerate(R) ==
    \/ FpLess(Fp(1, 0), FpAbs(CosOfTrace(R)))
    \/ FpLess(FpAbs(Sin(Acos(CosOfTrace(R)))), Threshold)

\* every component of the vector is a finite number
AllFinite(v) == \A i \in 1 .. 3 : IsFinite(v[i])

\* the vector is theta * w / sin(theta) for the angle of R
Scaled(R, v) ==
    LET theta == Acos(CosOfTrace(R))
    IN  \A i \in 1 .. 3 : v[i] = FpDiv(FpMul(theta, Vee(R)[i]), Sin(theta))

C31_UniqueIncreasingIds ==
    /\ \A j, k \in DOMAIN mnIds :
          j # k /\ mnIds[j] # NULL /\ mnIds[k] # NULL => mnIds[j] # mnIds[k]
    /\ \A t \in Threads :
          thread[t].op = "KeyFrame" /\ mnIds[thread[t].kf] # NULL =>
              \A j \in thread[t].done : mnIds[j] < mnIds[thread[t].kf]

\* C32: a keyframe never becomes bad while its not-erase guard is set: when
\* SetNotErase, AddLoopEdge or AddMergeEdge run concurrently with SetBadFlag
\* or SetErase on the same keyframe, the guard is false at the step that sets
\* the bad flag.
C32_NeverBadWhileGuarded ==
    [][\A k \in KF : ~mbBad[k] /\ mbBad'[k] => ~mbNotErase[k] /\ ~mbNotErase'[k]]_vars

\* C33: the two code paths that build the ordered covisible list agree: the
\* ordered list and the ordered weights a call UpdateConnections(K) stores are
\* the ones UpdateBestCovisibles would compute from the weight map the same
\* call stored for K.
C33_OrderingPathsAgree ==
    [][ \A k \in KF :
          IsCall("UpdateConnections", k) /\ DOMAIN KFcounter(Heap, k) # {} =>
              LET H == UpdateBestCovisibles(Heap', k)
              IN  /\ mvpOrderedConnectedKeyFrames'[k] = H.mvpOrderedConnectedKeyFrames[k]
                  /\ mvOrderedWeights'[k] = H.mvOrderedWeights[k] ]_vars

\* C34: in the pose vertex the update counter returns to 0 exactly on every
\* 3rd Update call and every 5th UpdateW call, and at exactly those calls the
\* stored rotation (Rwb for Update; DR for UpdateW, after DR(0,2), DR(1,2),
\* DR(2,0), DR(2,1) are set to zero) is replaced by its re-orthonormalized
\* value before the camera-view transforms are derived from it.
C34_PeriodicNormalization ==
    [][ LET e    == _estimate
            ur   == ret'.arg[1]
            Rwb  == MatMul(e.Rwb, expSO3(ur))
            DR   == MatMul(expSO3(ur), e.DR)
            cut  == [ DR EXCEPT ![1][3] = Fp(0, 0), ![2][3] = Fp(0, 0),
                                ![3][1] = Fp(0, 0), ![3][2] = Fp(0, 0) ]
        IN  /\ IsCall("Update", NULL) =>
                  /\ (_estimate'.its = 0) <=> (UpdatesDone' % 3 = 0)
                  /\ _estimate'.Rwb = IF UpdatesDone' % 3 = 0
                                      THEN normalizeRotation(Rwb) ELSE Rwb
                  /\ _estimate'.Rcw = Transpose(_estimate'.Rwb)
            /\ IsCall("UpdateW", NULL) =>
                  /\ (_estimate'.its = 0) <=> (UpdatesDone' % 5 = 0)
                  /\ _estimate'.DR = IF UpdatesDone' % 5 = 0
                                     THEN normalizeRotation(cut) ELSE DR
                  /\ _estimate'.Rcw = Transpose(_estimate'.Rwb) ]_vars

\* C35: parent and children references stay mutually consistent: after any
\* sequence of UpdateConnections, ChangeParent and SetBadFlag calls, for all
\* non-bad keyframes K and P, K is in the children set of P if and only if
\* the parent of K is P.
C35_TreeConsistent ==
    \A K, P \in DOMAIN mbBad :
        ~mbBad[K] /\ ~mbBad[P] => (K \in mspChildrens[P] <=> mpParent[K] = P)

\* C36: SetBadFlag never reparents a child to a null keyframe: when the
\* culled keyframe is not the initial one, has children and has no parent of
\* its own, the call returns normally and no child of it is handed a null
\* parent.
C36_NoNullReparent ==
    [][ \A k \in KF \ {InitKFid} :
          ( /\ IsCall("SetBadFlag", k)
            /\ ~mbNotErase[k] /\ ~mbBad[k]
            /\ mpParent[k] = NULL /\ mspChildrens[k] # {} )
          => /\ ret'.status = "ok"
             /\ \A c \in mspChildrens[k] : mpParent'[c] # NULL ]_vars

\* C37: trajectory export can always traverse past culled keyframes: from
\* every bad keyframe, following GetParent reaches a keyframe that is not bad
\* in finitely many steps, without a null parent and without a cycle, so the
\* traversal loop of the export ends and dereferences no null pointer.
C37_TraversalReachesLive ==
    /\ \A k \in KF : mbBad[k] => SaveTrajectoryTUM(Heap, k, NKF).status = "ok"
    /\ ret.op = "SaveTrajectoryTUM" => ret.status = "ok" /\ ret.arg # NULL

\* C38: culling is idempotent: SetBadFlag, or SetErase with the to-be-erased
\* flag still set, on a keyframe that is already bad returns normally and
\* changes no member of any keyframe, landmark, the map or the database.
C38_CullIdempotent ==
    [][ \A k \in DOMAIN mbBad :
          ( /\ IsCall("SetBadFlag", k) \/ (IsCall("SetErase", k) /\ mbToBeErased[k])
            /\ mbBad[k] )
          => Heap' = Heap /\ ret'.status = "ok" ]_vars

\* C39: localization-mode requests are applied in order and exactly once:
\* after ActivateLocalizationMode the next Track* call informs the tracker of
\* only-tracking mode only after the local mapper reports that it has
\* stopped, and clears the request; a Track* call that finds an activation
\* and a deactivation pending applies the activation first and the
\* deactivation second, so that mapping ends up released; every Track* call
\* makes the calls of the requests it found pending, once each, and leaves no
\* request pending.
C39_ModeRequests ==
    [][ LET s == System
            t == System'
        IN  /\ (~s.mbOnlyTracking /\ t.mbOnlyTracking) =>
                  /\ s.pc = "wait" /\ s.entry[1] /\ s.mbStopped
                  /\ ~t.mbActivateLocalizationMode
            /\ (s.pc = "deactivate" /\ t.pc = "idle") =>
                  /\ ~t.mbActivateLocalizationMode /\ ~t.mbDeactivateLocalizationMode
                  /\ t.mMutexMode = 0
                  /\ t.calls =
                        (IF s.entry[1] THEN << "RequestStop", "InformOnlyTracking(true)" >>
                                       ELSE << >>)
                        \o (IF s.entry[2] THEN << "InformOnlyTracking(false)", "Release" >>
                                          ELSE << >>)
                  /\ s.entry[2] => ~t.mbOnlyTracking /\ ~t.mbStopped /\ ~t.mbStopRequested
                  /\ (s.entry[1] /\ ~s.entry[2]) => t.mbOnlyTracking /\ t.mbStopped ]_vars

\* a Track* call that found both requests pending has returned
C39_Witness ==
    /\ ret.op = "TrackStereo" /\ System.pc = "idle"
    /\ System.entry = << TRUE, TRUE >>
    /\ Len(System.calls) = 4
    /\ ~System.mbOnlyTracking /\ ~System.mbStopped

\* C40: ComputeSceneMedianDepth never indexes outside its depth vector: for
\* every keyframe and every q >= 1, a keyframe with features but no landmark
\* in any slot included, the index used lies within the collected depths or
\* the function returns the -1 sentinel, and the call returns normally.
C40_IndexInRange ==
    /\ \A k \in KF : \A q \in QChoices :
          LET r == ComputeSceneMedianDepth(Heap, k, q)
          IN  r.sentinel \/ (0 <= r.idx /\ r.idx < r.size)
    /\ ret.op = "ComputeSceneMedianDepth" => ret.status = "ok"

====
